---- MODULE Spec2Model ----
(***************************************************************************)
(* State-machine model of the Danbooru gallery node                        *)
(* (js/danbooru_gallery/danbooru_gallery.js): the post cache, the tag-edit *)
(* overlay and its diff, the token-guarded tooltip enrichment, the guarded *)
(* paginated loads and the selection channel.                              *)
(*                                                                         *)
(* JavaScript strings are sequences of one-character strings, so that      *)
(* split, trim, join, sort, case folding and the formatting replacements   *)
(* are computed as the code computes them.  A missing property / the value *)
(* undefined is the marker Undefined.                                      *)
(***************************************************************************)
EXTENDS Integers, Sequences, FiniteSets, TLC

\* ------------------------------------------------------------------------
\* Bounds of the model (not program constants)
\* ------------------------------------------------------------------------
\* pages the remote source holds; later pages are empty
MaxPage == 2
\* tooltip tokens issued in one run
MaxToken == 4
\* tag additions and deletions in one run
MaxEdits == 2
\* longest search text the tag search of the edit panel may build
MaxSearchLen == 3

\* ------------------------------------------------------------------------
\* JavaScript values and string primitives
\* ------------------------------------------------------------------------
Undefined == <<"undefined">>

\* the value null, told from every string the same way
Null == <<"null">>

\* truthiness of a string, undefined or null: "", undefined and null are falsy
Truthy(v) == v # Undefined /\ v # Null /\ v # <<>>

\* the rank of a character among those in use, in UTF-16 code unit order
CharCode(c) ==
    LET CharOrder == <<" ", "#", "(", ")", ",", ".", "1", "2", "4", ":", "?", "G", "\\", "_",
                       "a", "b", "c", "d", "e", "f", "g", "i", "j", "m", "n", "o", "p",
                       "r", "t", "u", "w", "x">>
    IN CHOOSE i \in 1..Len(CharOrder) : CharOrder[i] = c

\* String.prototype.toLowerCase ("G" is the one upper-case letter in use)
ToLowerCase(s) == [i \in 1..Len(s) |-> IF s[i] = "G" THEN "g" ELSE s[i]]

IsSpace(c) == c = " "

RECURSIVE TrimLeft(_)
TrimLeft(s) ==
    IF s # <<>> /\ IsSpace(Head(s)) THEN TrimLeft(Tail(s)) ELSE s

RECURSIVE TrimRight(_)
TrimRight(s) ==
    IF s # <<>> /\ IsSpace(s[Len(s)]) THEN TrimRight(SubSeq(s, 1, Len(s) - 1)) ELSE s

\* String.prototype.trim
Trim(s) == TrimRight(TrimLeft(s))

RECURSIVE SplitAcc(_, _, _, _)
SplitAcc(s, c, cur, acc) ==
    IF s = <<>> THEN Append(acc, cur)
    ELSE IF Head(s) = c THEN SplitAcc(Tail(s), c, <<>>, Append(acc, cur))
    ELSE SplitAcc(Tail(s), c, Append(cur, Head(s)), acc)

\* s.split(c) for a one-character separator: "".split(c) is [""]
Split(s, c) == SplitAcc(s, c, <<>>, <<>>)

NonEmpty(t) == t # <<>>

\* s.split(/\s+/): the pieces between maximal runs of white space
SplitWhitespace(s) ==
    LET raw == Split(s, " ")
        n == Len(raw)
        keep(i) == raw[i] # <<>> \/ i = 1 \/ i = n
        idx == {i \in 1..n : keep(i)}
        RECURSIVE Pick(_, _)
        Pick(i, acc) == IF i > n THEN acc
                        ELSE Pick(i + 1, IF i \in idx THEN Append(acc, raw[i]) ELSE acc)
    IN Pick(1, <<>>)

RECURSIVE Join(_, _)
\* Array.prototype.join
Join(parts, sep) ==
    IF parts = <<>> THEN <<>>
    ELSE IF Len(parts) = 1 THEN parts[1]
    ELSE parts[1] \o sep \o Join(Tail(parts), sep)

RECURSIVE StrLess(_, _)
\* a < b by UTF-16 code units, the default order of Array.prototype.sort
StrLess(a, b) ==
    IF b = <<>> THEN FALSE
    ELSE IF a = <<>> THEN TRUE
    ELSE IF Head(a) # Head(b) THEN CharCode(Head(a)) < CharCode(Head(b))
    ELSE StrLess(Tail(a), Tail(b))

RECURSIVE InsertSorted(_, _)
InsertSorted(x, sorted) ==
    IF sorted = <<>> THEN <<x>>
    ELSE IF StrLess(x, Head(sorted)) THEN <<x>> \o sorted
    ELSE <<Head(sorted)>> \o InsertSorted(x, Tail(sorted))

RECURSIVE Sort(_)
\* Array.prototype.sort() without comparator
Sort(xs) == IF xs = <<>> THEN <<>> ELSE InsertSorted(Head(xs), Sort(Tail(xs)))

RECURSIVE ReplaceChar(_, _, _)
\* s.replace(/c/g, t) / s.replaceAll(c, t) for a one-character pattern
ReplaceChar(s, c, t) ==
    IF s = <<>> THEN <<>>
    ELSE (IF Head(s) = c THEN t ELSE <<Head(s)>>) \o ReplaceChar(Tail(s), c, t)

Includes(xs, x) == \E i \in 1..Len(xs) : xs[i] = x

IndexOf(xs, x) == IF Includes(xs, x)
                  THEN CHOOSE i \in 1..Len(xs) : xs[i] = x /\ \A j \in 1..(i - 1) : xs[j] # x
                  ELSE 0

RemoveAt(xs, i) == SubSeq(xs, 1, i - 1) \o SubSeq(xs, i + 1, Len(xs))

\* ------------------------------------------------------------------------
\* compareTagStrings
\* ------------------------------------------------------------------------
compareTagStringsUnsorted(str1, str2) ==
    IF ~Truthy(str1) /\ ~Truthy(str2) THEN TRUE
    ELSE IF ~Truthy(str1) \/ ~Truthy(str2) THEN FALSE
    ELSE SelectSeq(SplitWhitespace(Trim(str1)), NonEmpty)
         = SelectSeq(SplitWhitespace(Trim(str2)), NonEmpty)

compareTagStrings(str1, str2) ==
    IF ~Truthy(str1) /\ ~Truthy(str2) THEN TRUE
    ELSE IF ~Truthy(str1) \/ ~Truthy(str2) THEN FALSE
    ELSE LET tags1 == Sort(SelectSeq(SplitWhitespace(Trim(str1)), NonEmpty))
             tags2 == Sort(SelectSeq(SplitWhitespace(Trim(str2)), NonEmpty))
         IN IF Len(tags1) # Len(tags2) THEN FALSE
            ELSE \A i \in 1..Len(tags1) : tags1[i] = tags2[i]

\* ------------------------------------------------------------------------
\* Posts as the remote source returns them
\* ------------------------------------------------------------------------
Categories == <<"artist", "copyright", "character", "general", "meta">>
CategorySet == {Categories[i] : i \in 1..Len(Categories)}

NoTags == [c \in CategorySet |-> Undefined]

\* JSON.parse(JSON.stringify(post)): a structural copy; the model's values do
\* not alias, the aliasing the code creates is tracked by the edit panel state
DeepCopy(post) == post

s_a == <<"a">>
s_b == <<"b">>
s_gore == <<"g", "o", "r", "e">>
s_a_b == <<"a", " ", "b">>
s_a_gore == <<"a", " ", "g", "o", "r", "e">>
s_c_d == <<"c", "_", "(", "d", ")">>
s_url_png == <<"u", ".", "p", "n", "g">>
s_url == <<"u">>

\* id 1: categorized tags, allowed type
PostA == [id |-> 1, preview_file_url |-> s_url, file_url |-> s_url_png,
          file_ext |-> <<"p", "n", "g">>,
          tag_string |-> s_a_b \o <<" ">> \o s_c_d,
          tags |-> [NoTags EXCEPT !["general"] = s_a_b, !["character"] = s_c_d]]
\* id 2: a blacklist candidate
PostGore == [id |-> 2, preview_file_url |-> s_url, file_url |-> s_url_png,
             file_ext |-> <<"j", "p", "g">>,
             tag_string |-> s_a_gore,
             tags |-> [NoTags EXCEPT !["general"] = s_a_gore]]
\* id 3: only the flat tag string, type known from the URL alone
PostFlat == [id |-> 3, preview_file_url |-> s_url, file_url |-> s_url_png, file_ext |-> Undefined,
             tag_string |-> <<"b", " ", "a">>, tags |-> NoTags]
\* id 4: a video
PostVideo == [id |-> 4, preview_file_url |-> s_url,
              file_url |-> <<"u", ".", "m", "p", "4", "?", "x">>, file_ext |-> <<"m", "p", "4">>,
              tag_string |-> s_a, tags |-> [NoTags EXCEPT !["general"] = s_a]]
\* id 4 again: the type must be read from the URL and is not allowed
PostUrlVideo == [PostVideo EXCEPT !.file_ext = Undefined]
\* id 5: neither extension nor URL
PostNoType == [id |-> 5, preview_file_url |-> s_url, file_url |-> Undefined, file_ext |-> Undefined,
               tag_string |-> s_b, tags |-> [NoTags EXCEPT !["general"] = s_b]]
\* id 1 as a later fetch returns it, with other tags
PostA2 == [PostA EXCEPT !.tags = [NoTags EXCEPT !["general"] = s_a, !["character"] = s_c_d]]

\* ------------------------------------------------------------------------
\* isValidImageType / isPostBlacklisted / isPostFiltered
\* ------------------------------------------------------------------------
allowedImageExtensions ==
    << <<"j", "p", "g">>, <<"j", "p", "e", "g">>, <<"p", "n", "g">>, <<"w", "e", "b", "p">>,
       <<"b", "m", "p">>, <<"t", "i", "f", "f">>, <<"t", "i", "f">> >>

\* url.match(/\.([^.?#]+)(?:\?|#|$)/): the captured group of the leftmost match,
\* Undefined without a match
ExtMatch(url) ==
    LET RECURSIVE ExtRun(_)
        \* the longest prefix matching [^.?#]*
        ExtRun(s) == IF s = <<>> \/ Head(s) \in {".", "?", "#"} THEN <<>>
                     ELSE <<Head(s)>> \o ExtRun(Tail(s))
        ok(i) == /\ url[i] = "."
                 /\ LET rest == SubSeq(url, i + 1, Len(url))
                        run == ExtRun(rest)
                    IN /\ run # <<>>
                       /\ \/ Len(run) = Len(rest)
                          \/ rest[Len(run) + 1] \in {"?", "#"}
        hits == {i \in 1..Len(url) : ok(i)}
    IN IF hits = {} THEN Undefined
       ELSE LET i == CHOOSE k \in hits : \A j \in hits : k <= j
            IN ExtRun(SubSeq(url, i + 1, Len(url)))

\* isValidImageType(post)
isValidImageType(post) ==
    IF Truthy(post.file_ext) THEN Includes(allowedImageExtensions, ToLowerCase(post.file_ext))
    ELSE IF Truthy(post.file_url) /\ ExtMatch(ToLowerCase(post.file_url)) # Undefined
         THEN Includes(allowedImageExtensions, ExtMatch(ToLowerCase(post.file_url)))
    ELSE FALSE

\* the tags isPostBlacklisted collects: the flat string and the five categories
AllTagsOf(post) ==
    LET part(v) == IF Truthy(v) THEN Split(v, " ") ELSE <<>>
    IN part(post.tag_string) \o part(post.tags["artist"]) \o part(post.tags["copyright"])
       \o part(post.tags["character"]) \o part(post.tags["general"]) \o part(post.tags["meta"])

isPostBlacklistedCaseSensitive(post, blacklist) ==
    IF blacklist = <<>> THEN FALSE
    ELSE LET allTags == AllTagsOf(post)
         IN \E k \in 1..Len(blacklist) :
              LET normalized == Trim(blacklist[k])
              IN /\ normalized # <<>>
                 /\ \E j \in 1..Len(allTags) : allTags[j] = normalized

isPostBlacklisted(post, blacklist) ==
    IF blacklist = <<>> THEN FALSE
    ELSE LET allTags == AllTagsOf(post)
         IN \E k \in 1..Len(blacklist) :
              LET normalizedBlacklistTag == ToLowerCase(Trim(blacklist[k]))
              IN /\ normalizedBlacklistTag # <<>>
                 /\ \E j \in 1..Len(allTags) : ToLowerCase(allTags[j]) = normalizedBlacklistTag

isPostFiltered(post, blacklist) ==
    IF ~isValidImageType(post) THEN TRUE ELSE isPostBlacklisted(post, blacklist)

\* ------------------------------------------------------------------------
\* State
\* ------------------------------------------------------------------------
VARIABLES
    posts,               \* let posts: the Post Cache
    currentPage,         \* let currentPage
    isLoading,           \* let isLoading
    loads,               \* invocations of fetchAndRender suspended at an await
    grid,                \* the .danbooru-image-wrapper children of imageGrid, in order
    gridStatus,          \* the status paragraphs of imageGrid
    tagHint,             \* tagHintDisplay is shown
    searchValue,         \* searchInput.value
    previousSearchValue, \* let previousSearchValue
    rating,              \* dataset.value of the rating button
    filterState,         \* let filterState
    filterWidget,        \* filterWidget.value (parsed)
    currentBlacklist,    \* let currentBlacklist
    uiSettings,          \* uiSettings.multi_select_enabled, .tooltip_enabled
    promptSettings,      \* checked categories, formatting boxes, prompt filter
    settingsSave,        \* the settings save that awaits its three POSTs
    originalPostCache,   \* const originalPostCache
    temporaryTagEdits,   \* let temporaryTagEdits
    panel,               \* the open edit panel and what its closures hold
    selectionWidget,     \* selectionWidget.value (parsed)
    currentTooltipId,    \* let currentTooltipId
    tipRequests,         \* mouseenter handlers suspended at the translation fetch
    globalTooltip,       \* the shared tooltip element
    language,            \* globalMultiLanguageManager.getLanguage()
    edits,               \* tag additions and deletions made (bounds the run)
    started              \* initializeApp has reached its fetchAndRender(true)

loadVars == <<posts, currentPage, isLoading, loads, grid, gridStatus>>
queryVars == <<searchValue, previousSearchValue, rating, filterState, filterWidget>>
settingVars == <<currentBlacklist, uiSettings, promptSettings, settingsSave>>
editVars == <<temporaryTagEdits, panel, edits>>
tipVars == <<currentTooltipId, tipRequests, globalTooltip>>

vars == <<posts, currentPage, isLoading, loads, grid, gridStatus, tagHint,
          searchValue, previousSearchValue, rating, filterState, filterWidget,
          currentBlacklist, uiSettings, promptSettings, settingsSave,
          originalPostCache, temporaryTagEdits, panel, selectionWidget,
          currentTooltipId, tipRequests, globalTooltip, language, edits, started>>

PostIds == 1..5

\* no post: an absent entry of originalPostCache / temporaryTagEdits
NoPost == [id |-> 0]

\* filterState.startPage: null is <<>>, the number n is <<n>>
NullPage == <<>>

DefaultFilter == [startTime |-> Undefined, endTime |-> Undefined, startPage |-> NullPage]

\* ------------------------------------------------------------------------
\* updateEditedStatus: the status it computes and returns
\* ------------------------------------------------------------------------
IsTrulyEdited(originalPost, editedPost) ==
    IF editedPost # NoPost /\ originalPost # NoPost
    THEN LET hasCategoryTags ==
                 \E cat \in CategorySet :
                     originalPost.tags[cat] # Undefined \/ editedPost.tags[cat] # Undefined
         IN IF hasCategoryTags
            THEN \E cat \in CategorySet :
                     ~compareTagStrings(originalPost.tags[cat], editedPost.tags[cat])
            ELSE ~compareTagStrings(originalPost.tag_string, editedPost.tag_string)
    ELSE FALSE

\* updateEditedStatus(wrapperElement, postId) under the given caches
updateEditedStatus(cache, edited, postId) == IsTrulyEdited(cache[postId], edited[postId])

\* ------------------------------------------------------------------------
\* createPostElement / renderPost
\* ------------------------------------------------------------------------
\* if (!post.id || !post.preview_file_url) return null
Renderable(post) == post.id # 0 /\ Truthy(post.preview_file_url)

\* a creation of an element that takes no snapshot
CaptureNever(cache, post) == cache

\* a capture that takes a snapshot at every creation of an element
CaptureAlways(cache, post) == [cache EXCEPT ![post.id] = DeepCopy(post)]

\* the snapshot capture of createPostElement
Capture(cache, post) ==
    IF cache[post.id] = NoPost THEN [cache EXCEPT ![post.id] = DeepCopy(post)] ELSE cache

\* the wrapper createPostElement returns
NewElement(cache, edited, post) ==
    [id |-> post.id, post |-> post, selected |-> FALSE,
     edited |-> updateEditedStatus(cache, edited, post.id)]

RECURSIVE RenderPosts(_, _, _, _)
\* list.forEach(renderPost): the cache and the grid after it
RenderPosts(list, cache, edited, g) ==
    IF list = <<>> THEN [cache |-> cache, grid |-> g]
    ELSE IF ~Renderable(Head(list)) THEN RenderPosts(Tail(list), cache, edited, g)
    ELSE LET c2 == Capture(cache, Head(list))
         IN RenderPosts(Tail(list), c2, edited, Append(g, NewElement(c2, edited, Head(list))))

\* ------------------------------------------------------------------------
\* convertTagsToApiFormat and the query of fetchAndRender
\* ------------------------------------------------------------------------
RECURSIVE UnescapeBrackets(_)
\* tag.replace(/\\([()])/g, '$1')
UnescapeBrackets(s) ==
    IF s = <<>> THEN <<>>
    ELSE IF Head(s) = "\\" /\ Len(s) >= 2 /\ s[2] \in {"(", ")"}
         THEN <<s[2]>> \o UnescapeBrackets(SubSeq(s, 3, Len(s)))
    ELSE <<Head(s)>> \o UnescapeBrackets(Tail(s))

RECURSIVE ReplaceSpaceRuns(_, _)
\* s.replace(/\s+/g, t)
ReplaceSpaceRuns(s, t) ==
    IF s = <<>> THEN <<>>
    ELSE IF IsSpace(Head(s)) THEN t \o ReplaceSpaceRuns(TrimLeft(s), t)
    ELSE <<Head(s)>> \o ReplaceSpaceRuns(Tail(s), t)

NotBlank(tag) == Trim(tag) # <<>>

ConvertTag(tag) ==
    LET unescaped == UnescapeBrackets(Trim(tag))
    IN IF ~Includes(unescaped, ":") THEN ReplaceSpaceRuns(unescaped, <<"_">>) ELSE unescaped

\* convertTagsToApiFormat(tagsString)
convertTagsToApiFormat(tagsString) ==
    IF ~Truthy(tagsString) THEN <<>>
    ELSE LET tags == SelectSeq(Split(tagsString, ","), NotBlank)
         IN Join([i \in 1..Len(tags) |-> ConvertTag(tags[i])], <<" ">>)

\* new Date(t).toISOString().split('T')[0]; the model's time strings are days
IsoDate(t) == t

\* the tag count fetchAndRender takes from the search box
TagCount(value) == Len(SelectSeq(Split(Trim(value), ","), NotBlank))

\* "search[tags]" of the request
SearchTags(value, fs) ==
    LET api == convertTagsToApiFormat(Trim(value))
        withDate ==
            IF Truthy(fs.startTime) \/ Truthy(fs.endTime)
            THEN api \o <<" ", "d", "a", "t", "e", ":">>
                     \o (IF Truthy(fs.startTime) THEN IsoDate(fs.startTime) ELSE <<>>)
                     \o <<".", ".">>
                     \o (IF Truthy(fs.endTime) THEN IsoDate(fs.endTime) ELSE <<>>)
            ELSE api
    IN Trim(withDate)

\* ------------------------------------------------------------------------
\* The remote post source and the network
\* ------------------------------------------------------------------------
\* what the request of a page may come back with when the endpoint holds the given
\* lists: a list (none left beyond MaxPage), a non-list, a rejection
Responses(page, lists) ==
    {[kind |-> "nonlist", list |-> <<>>], [kind |-> "reject", list |-> <<>>]}
    \cup {[kind |-> "list", list |-> l] :
            l \in IF page <= MaxPage THEN lists \cup {<<>>} ELSE {<<>>}}

\* pages beyond this one are not asked for (bounds currentPage)
PageCap == MaxPage + 1

\* ------------------------------------------------------------------------
\* fetchAndRender
\* ------------------------------------------------------------------------
LoadGuardOff == FALSE

\* if (isLoading) return;
LoadGuard == isLoading

StartPageOfOne(fs) == 1

\* currentPage = filterState.startPage || 1
StartPageOf(fs) == IF fs.startPage # NullPage /\ fs.startPage[1] # 0 THEN fs.startPage[1] ELSE 1

\* fetchAndRender(reset), up to its first await, called when the grid holds g and
\* the status paragraphs gs; fs is filterState as the caller left it
FetchAndRenderFrom(reset, fs, g, gs) ==
    IF LoadGuard
    THEN /\ UNCHANGED <<posts, currentPage, isLoading, loads>>
         /\ grid' = g
         /\ gridStatus' = gs
    ELSE /\ isLoading' = TRUE
         /\ IF reset
            THEN /\ currentPage' = StartPageOf(fs)
                 /\ posts' = <<>>
                 /\ grid' = <<>>
                 /\ gridStatus' = {"loading"}
            ELSE /\ UNCHANGED <<currentPage, posts>>
                 /\ grid' = g
                 /\ gridStatus' = gs \cup {"loading"}
         /\ loads' = Append(loads, [reset |-> reset, stage |-> "net",
                                    query |-> [text |-> <<>>, tags |-> <<>>, rating |-> "",
                                               page |-> 0]])

FetchAndRenderCall(reset, fs) == FetchAndRenderFrom(reset, fs, grid, gridStatus)

NetworkCheckedStuck(i, connected) ==
    /\ i \in 1..Len(loads)
    /\ loads[i].stage = "net"
    /\ ~connected
    /\ grid' = <<>>
    /\ gridStatus' = {"error"}
    /\ loads' = RemoveAt(loads, i)
    /\ UNCHANGED <<isLoading, posts, currentPage, tagHint, queryVars, settingVars,
                   originalPostCache, editVars, selectionWidget, tipVars, language, started>>

\* a request that asks for the page after currentPage
NetworkCheckedNextPage(i, connected) ==
    /\ i \in 1..Len(loads)
    /\ loads[i].stage = "net"
    /\ connected
    /\ tagHint' = (TagCount(searchValue) > 2)
    /\ loads' = [loads EXCEPT ![i] =
                   [reset |-> loads[i].reset, stage |-> "posts",
                    query |-> [text |-> Trim(searchValue),
                               tags |-> SearchTags(searchValue, filterState),
                               rating |-> rating, page |-> currentPage + 1]]]
    /\ UNCHANGED <<posts, currentPage, isLoading, grid, gridStatus, queryVars, settingVars,
                   originalPostCache, editVars, selectionWidget, tipVars, language, started>>

\* checkNetworkStatus resolved for the invocation loads[i]
NetworkChecked(i, connected) ==
    /\ i \in 1..Len(loads)
    /\ loads[i].stage = "net"
    /\ IF ~connected
       THEN /\ grid' = <<>>
            /\ gridStatus' = {"error"}
            /\ isLoading' = FALSE
            /\ loads' = RemoveAt(loads, i)
            /\ UNCHANGED <<posts, currentPage, tagHint>>
       ELSE /\ tagHint' = (TagCount(searchValue) > 2)
            /\ loads' = [loads EXCEPT ![i] =
                           [reset |-> loads[i].reset, stage |-> "posts",
                            query |-> [text |-> Trim(searchValue),
                                       tags |-> SearchTags(searchValue, filterState),
                                       rating |-> rating, page |-> currentPage]]]
            /\ UNCHANGED <<posts, currentPage, isLoading, grid, gridStatus>>
    /\ UNCHANGED <<queryVars, settingVars, originalPostCache, editVars, selectionWidget,
                   tipVars, language, started>>

\* newPosts.filter(post => !isPostFiltered(post))
FilterPosts(list, blacklist) ==
    LET keep(post) == ~isPostFiltered(post, blacklist) IN SelectSeq(list, keep)

PostsReturnedAdvancing(i, resp) ==
    /\ i \in 1..Len(loads)
    /\ loads[i].stage = "posts"
    /\ currentPage' = currentPage + 1
    /\ grid' = <<>>
    /\ gridStatus' = {"error"}
    /\ isLoading' = FALSE
    /\ loads' = RemoveAt(loads, i)
    /\ UNCHANGED <<posts, originalPostCache, tagHint, queryVars, settingVars, editVars,
                   selectionWidget, tipVars, language, started>>

\* the posts request of loads[i] came back
PostsReturned(i, resp) ==
    /\ i \in 1..Len(loads)
    /\ loads[i].stage = "posts"
    /\ LET filteredPosts == FilterPosts(resp.list, currentBlacklist)
       IN IF resp.kind # "list"
          THEN \* catch (e)
               /\ grid' = <<>>
               /\ gridStatus' = {"error"}
               /\ UNCHANGED <<posts, currentPage, originalPostCache>>
          ELSE IF filteredPosts = <<>> /\ loads[i].reset
          THEN /\ grid' = <<>>
               /\ gridStatus' = {"noResults"}
               /\ UNCHANGED <<posts, currentPage, originalPostCache>>
          ELSE LET r == RenderPosts(filteredPosts, originalPostCache, temporaryTagEdits, grid)
               IN /\ currentPage' = currentPage + 1
                  /\ posts' = posts \o filteredPosts
                  /\ originalPostCache' = r.cache
                  /\ grid' = r.grid
                  /\ gridStatus' = gridStatus \ {"loading"}
    \* finally
    /\ isLoading' = FALSE
    /\ loads' = RemoveAt(loads, i)
    /\ UNCHANGED <<tagHint, queryVars, settingVars, editVars, selectionWidget,
                   tipVars, language, started>>

\* the 3 s timer of showTagHint
TagHintTimeout ==
    /\ tagHint
    /\ tagHint' = FALSE
    /\ UNCHANGED <<loadVars, queryVars, settingVars, originalPostCache, editVars,
                   selectionWidget, tipVars, language, started>>

\* ------------------------------------------------------------------------
\* The triggers of fetchAndRender
\* ------------------------------------------------------------------------
othersOfLoad == <<tagHint, settingVars, originalPostCache, editVars, selectionWidget,
                  currentTooltipId, tipRequests, language, started>>

\* the toolbar and the grid are covered while the edit panel is open
PanelClosed == panel.open = FALSE

\* initializeApp, at its closing fetchAndRender(true)
InitializeApp ==
    /\ ~started
    /\ started' = TRUE
    /\ FetchAndRenderCall(TRUE, filterState)
    /\ UNCHANGED <<tagHint, queryVars, settingVars, originalPostCache, editVars,
                   selectionWidget, tipVars, language>>

\* imageGrid scroll listener near the bottom
Scroll ==
    /\ started /\ PanelClosed
    /\ currentPage <= PageCap
    /\ FetchAndRenderCall(FALSE, filterState)
    /\ UNCHANGED <<othersOfLoad, queryVars, globalTooltip>>

\* refreshButton click
RefreshClick ==
    /\ started /\ PanelClosed
    /\ ~isLoading    \* refreshButton.disabled
    /\ FetchAndRenderCall(TRUE, filterState)
    /\ UNCHANGED <<othersOfLoad, queryVars, globalTooltip>>

\* searchInput keydown Enter
SearchEnter ==
    /\ started /\ PanelClosed
    /\ FetchAndRenderCall(TRUE, filterState)
    /\ UNCHANGED <<othersOfLoad, queryVars, globalTooltip>>

\* searchInput input: handleSearchInput
SearchInput(value) ==
    /\ started /\ PanelClosed
    /\ value # searchValue
    /\ searchValue' = value
    /\ previousSearchValue' = Trim(value)
    /\ IF previousSearchValue # <<>> /\ Trim(value) = <<>>
       THEN FetchAndRenderCall(TRUE, filterState)
       ELSE UNCHANGED loadVars
    /\ UNCHANGED <<othersOfLoad, rating, filterState, filterWidget, globalTooltip>>

\* a rating item click: the button's value, then the change listener
RatingChange(value) ==
    /\ started /\ PanelClosed
    /\ rating' = value
    /\ globalTooltip' = [globalTooltip EXCEPT !.display = "none"]
    /\ FetchAndRenderCall(TRUE, filterState)
    /\ UNCHANGED <<othersOfLoad, searchValue, previousSearchValue, filterState, filterWidget>>

\* showFilterDialog resetButton
FilterReset ==
    /\ started /\ PanelClosed
    /\ filterState' = DefaultFilter
    /\ filterWidget' = DefaultFilter
    /\ FetchAndRenderCall(TRUE, DefaultFilter)
    /\ UNCHANGED <<othersOfLoad, searchValue, previousSearchValue, rating, globalTooltip>>

\* new Date(a) > new Date(b) for the model's time strings
DateAfter(a, b) == StrLess(b, a)

FilterApplyTimeKeepsPage(startTime, endTime) ==
    /\ started /\ PanelClosed
    /\ filterState' = [filterState EXCEPT !.startTime = startTime, !.endTime = endTime]
    /\ filterWidget' = filterState'
    /\ FetchAndRenderCall(TRUE, filterState')
    /\ UNCHANGED <<othersOfLoad, searchValue, previousSearchValue, rating, globalTooltip>>

\* showFilterDialog applyButton with the time radio checked
FilterApplyTime(startTime, endTime) ==
    /\ started /\ PanelClosed
    /\ IF Truthy(startTime) /\ Truthy(endTime) /\ DateAfter(startTime, endTime)
       THEN UNCHANGED <<filterState, filterWidget, loadVars>>
       ELSE LET fs == [startTime |-> IF Truthy(startTime) THEN startTime ELSE Undefined,
                       endTime |-> IF Truthy(endTime) THEN endTime ELSE Undefined,
                       startPage |-> NullPage]
            IN /\ filterState' = fs
               /\ filterWidget' = fs
               /\ FetchAndRenderCall(TRUE, fs)
    /\ UNCHANGED <<othersOfLoad, searchValue, previousSearchValue, rating, globalTooltip>>

\* parseInt(value, 10) of an unsigned text: <<>> is NaN, <<n>> the number n
ParseInt(value) ==
    LET Digits == <<"0", "1", "2", "3", "4", "5", "6", "7", "8", "9">>
        IsDigit(c) == \E i \in 1..Len(Digits) : Digits[i] = c
        DigitOf(c) == (CHOOSE i \in 1..Len(Digits) : Digits[i] = c) - 1
        RECURSIVE DigitRun(_, _)
        \* the value of the leading digits of s, after acc
        DigitRun(s, acc) ==
            IF s = <<>> \/ ~IsDigit(Head(s)) THEN acc
            ELSE DigitRun(Tail(s), 10 * acc + DigitOf(Head(s)))
        t == TrimLeft(value)
    IN IF t = <<>> \/ ~IsDigit(Head(t)) THEN <<>> ELSE <<DigitRun(t, 0)>>

\* showFilterDialog applyButton with the page radio checked
FilterApplyPage(value) ==
    /\ started /\ PanelClosed
    /\ LET startPage == ParseInt(value)
           isNaN == startPage = <<>>
       IN IF value # <<>> /\ (isNaN \/ startPage[1] < 1)
          THEN UNCHANGED <<filterState, filterWidget, loadVars>>
          ELSE LET fs == [startTime |-> Undefined, endTime |-> Undefined,
                          startPage |-> IF isNaN THEN NullPage ELSE startPage]
               IN /\ filterState' = fs
                  /\ filterWidget' = fs
                  /\ FetchAndRenderCall(TRUE, fs)
    /\ UNCHANGED <<othersOfLoad, searchValue, previousSearchValue, rating, globalTooltip>>

\* ------------------------------------------------------------------------
\* buildPromptForPost and its inline copies
\* ------------------------------------------------------------------------
\* Array.from(categoryDropdown.querySelectorAll("input:checked")).map(i => i.name)
SelectedCategories(ps) ==
    LET isChecked(c) == c \in ps.categories IN SelectSeq(Categories, isChecked)

RECURSIVE GatherTags(_, _)
GatherTags(cats, post) ==
    IF cats = <<>> THEN <<>>
    ELSE (IF Truthy(post.tags[Head(cats)]) THEN Split(post.tags[Head(cats)], " ") ELSE <<>>)
         \o GatherTags(Tail(cats), post)

FormatTagNoEscape(tag, ps) ==
    IF ps.replaceUnderscores THEN ReplaceChar(tag, "_", <<" ">>) ELSE tag

FormatTag(tag, ps) ==
    LET t1 == IF ps.replaceUnderscores THEN ReplaceChar(tag, "_", <<" ">>) ELSE tag
    IN IF ps.escapeBrackets
       THEN ReplaceChar(ReplaceChar(t1, "(", <<"\\", "(">>), ")", <<"\\", ")">>)
       ELSE t1

\* the prompt computed from postToUse
PromptOf(postToUse, ps) ==
    LET output_tags == GatherTags(SelectedCategories(ps), postToUse)
        flat == IF Truthy(postToUse.tag_string) THEN postToUse.tag_string ELSE <<>>
        tagsToProcess == IF Len(output_tags) > 0 THEN output_tags ELSE Split(flat, " ")
        filterTagsLower == [i \in 1..Len(ps.currentFilterTags) |->
                               Trim(ToLowerCase(ps.currentFilterTags[i]))]
        notFiltered(tag) == ~Includes(filterTagsLower, Trim(ToLowerCase(tag)))
        kept == IF ps.filterEnabled /\ Len(ps.currentFilterTags) > 0
                THEN SelectSeq(tagsToProcess, notFiltered) ELSE tagsToProcess
    IN Join([i \in 1..Len(kept) |-> FormatTag(kept[i], ps)], <<",", " ">>)

buildPromptForPostCacheOnly(postData, edited, ps) == PromptOf(postData, ps)

\* buildPromptForPost(postData)
buildPromptForPost(postData, edited, ps) ==
    PromptOf(IF edited[postData.id] # NoPost THEN edited[postData.id] ELSE postData, ps)

\* post.file_url || post.large_file_url (the modelled posts carry no large_file_url)
ImageUrl(post) == IF Truthy(post.file_url) THEN post.file_url ELSE Undefined

EmptySelection == [kind |-> "empty"]

SingleSelection(prompt, url) == [kind |-> "single", prompt |-> prompt, image_url |-> url]

\* posts.find(p => p.id == id), NoPost when there is none
FindPost(ps, id) ==
    IF \E i \in 1..Len(ps) : ps[i].id = id
    THEN ps[CHOOSE i \in 1..Len(ps) : ps[i].id = id /\ \A j \in 1..(i - 1) : ps[j].id # id]
    ELSE NoPost

\* findIndex / querySelector: the first position with the id, 0 when there is none
FirstIndex(xs, id) ==
    IF \E i \in 1..Len(xs) : xs[i].id = id
    THEN CHOOSE i \in 1..Len(xs) : xs[i].id = id /\ \A j \in 1..(i - 1) : xs[j].id # id
    ELSE 0

\* the first .danbooru-image-wrapper.selected, 0 when there is none
FirstSelected(g) ==
    IF \E i \in 1..Len(g) : g[i].selected
    THEN CHOOSE i \in 1..Len(g) : g[i].selected /\ \A j \in 1..(i - 1) : ~g[j].selected
    ELSE 0

RECURSIVE SelectionsOf(_, _, _, _)
\* the selections array updateSelectionData collects, in grid order
SelectionsOf(g, ps, edited, settings) ==
    IF g = <<>> THEN <<>>
    ELSE LET w == Head(g)
             found == FindPost(ps, w.id)
             postData == IF found # NoPost THEN found ELSE edited[w.id]
             rest == SelectionsOf(Tail(g), ps, edited, settings)
         IN IF w.selected /\ postData # NoPost
            THEN <<[post_id |-> w.id, prompt |-> buildPromptForPost(postData, edited, settings),
                    image_url |-> ImageUrl(postData)]>> \o rest
            ELSE rest

updateSelectionDataAll(g, ps, edited, settings) ==
    [kind |-> "multi",
     selections |-> SelectionsOf([i \in 1..Len(g) |-> [g[i] EXCEPT !.selected = TRUE]],
                                 ps, edited, settings)]

\* updateSelectionData(): the value it writes to the selection_data widget
updateSelectionData(g, ps, edited, settings) ==
    [kind |-> "multi", selections |-> SelectionsOf(g, ps, edited, settings)]

\* updateEditedStatus on the first wrapper of the grid with the id
RefreshIndicator(g, cache, edited, id) ==
    LET k == FirstIndex(g, id)
    IN IF k = 0 THEN g
       ELSE [g EXCEPT ![k].edited = updateEditedStatus(cache, edited, id)]

\* ------------------------------------------------------------------------
\* Image click and clear-all
\* ------------------------------------------------------------------------
\* img onclick of the wrapper grid[k]
ImageClickNoClear(k) ==
    /\ started /\ PanelClosed
    /\ k \in 1..Len(grid)
    /\ grid' = [grid EXCEPT ![k].selected = ~grid[k].selected]
    /\ selectionWidget' = updateSelectionData(grid', posts, temporaryTagEdits, promptSettings)
    /\ UNCHANGED <<posts, currentPage, isLoading, loads, gridStatus, tagHint, queryVars,
                   settingVars, originalPostCache, editVars, tipVars, language, started>>

ImageClick(k) ==
    /\ started /\ PanelClosed
    /\ k \in 1..Len(grid)
    /\ LET isSelected == grid[k].selected
           cleared == IF ~uiSettings.multi_select_enabled
                      THEN [i \in 1..Len(grid) |->
                              IF i # k THEN [grid[i] EXCEPT !.selected = FALSE] ELSE grid[i]]
                      ELSE grid
           g2 == [cleared EXCEPT ![k].selected = ~isSelected]
       IN /\ grid' = g2
          /\ selectionWidget' = updateSelectionData(g2, posts, temporaryTagEdits, promptSettings)
    /\ UNCHANGED <<posts, currentPage, isLoading, loads, gridStatus, tagHint, queryVars,
                   settingVars, originalPostCache, editVars, tipVars, language, started>>

\* clearSelectionButton click: clearAllSelections
ClearAllSelections ==
    /\ started /\ PanelClosed
    /\ LET g2 == [i \in 1..Len(grid) |-> [grid[i] EXCEPT !.selected = FALSE]]
       IN /\ grid' = g2
          /\ selectionWidget' = updateSelectionData(g2, posts, temporaryTagEdits, promptSettings)
    /\ UNCHANGED <<posts, currentPage, isLoading, loads, gridStatus, tagHint, queryVars,
                   settingVars, originalPostCache, editVars, tipVars, language, started>>

\* ------------------------------------------------------------------------
\* The edit panel: showEditPanel, renderTagsInPanel, closePanel
\* ------------------------------------------------------------------------
\* The closures of the panel hold one of three objects as postData:
\*   "wc"     the object temporaryTagEdits[id] refers to
\*   "orig"   the object originalPostCache[id] refers to
\*   "orphan" the working copy object the reset button dropped from
\*            temporaryTagEdits while a render of it was still awaiting
\* Three fields are history no handler reads: lastId is the post the panel was
\* opened for last, clean says that no tag was added, deleted or reset since that
\* open, and second that the open followed a clean session of the same post.
ClosedPanel == [open |-> FALSE, id |-> 0, post |-> NoPost, sections |-> <<>>,
                renders |-> <<>>, orphan |-> NoPost, refetch |-> FALSE,
                lastId |-> 0, clean |-> FALSE, second |-> FALSE]

RECURSIVE Dedup(_, _)
\* insertion into a Set, in order
Dedup(xs, acc) ==
    IF xs = <<>> THEN acc
    ELSE Dedup(Tail(xs), IF Includes(acc, Head(xs)) THEN acc ELSE Append(acc, Head(xs)))

\* categorizedTags of renderTagsInPanel
CategorizedTags(postData) ==
    LET own == [c \in CategorySet |->
                   IF Truthy(postData.tags[c]) THEN Dedup(Split(postData.tags[c], " "), <<>>)
                   ELSE <<>>]
    IN IF (\A c \in CategorySet : own[c] = <<>>) /\ Truthy(postData.tag_string)
       THEN [own EXCEPT !["general"] = Dedup(Split(postData.tag_string, " "), <<>>)]
       ELSE own

\* allTags.length > 0
HasTags(batchTags) == \E c \in CategorySet : \E i \in 1..Len(batchTags[c]) : batchTags[c][i] # <<>>

\* the content of the object a closure holds
ObjContent(obj) ==
    IF obj = "wc" THEN temporaryTagEdits[panel.id]
    ELSE IF obj = "orig" THEN originalPostCache[panel.id]
    ELSE panel.orphan

\* renderTagsInPanel(tagsContainer, postData, panel) called with the object `target`
\* whose content is `content`: the panel and the grid after the call returned
RenderTagsInPanel(target, content, cache, edited, pnl, g) ==
    LET batch == [obj |-> target, tags |-> CategorizedTags(content)]
    IN IF language = "zh" /\ HasTags(batch.tags)
       THEN [panel |-> [pnl EXCEPT !.sections = <<>>,
                                   !.renders = Append(@, [id |-> content.id, batch |-> batch,
                                                          live |-> TRUE])],
             grid |-> g]
       ELSE [panel |-> [pnl EXCEPT !.sections = <<batch>>],
             grid |-> RefreshIndicator(g, cache, edited, content.id)]

\* the translation fetch of a suspended renderTagsInPanel resolved or failed
RenderDone(r) ==
    /\ r \in 1..Len(panel.renders)
    /\ LET rd == panel.renders[r]
       IN /\ panel' = [panel EXCEPT !.renders = RemoveAt(@, r),
                                    !.sections = IF rd.live THEN Append(@, rd.batch) ELSE @]
          /\ grid' = RefreshIndicator(grid, originalPostCache, temporaryTagEdits, rd.id)
    /\ UNCHANGED <<posts, currentPage, isLoading, loads, gridStatus, tagHint, queryVars,
                   settingVars, originalPostCache, temporaryTagEdits, edits, selectionWidget,
                   tipVars, language, started>>

\* the working copy showEditPanel edits: an existing one is kept
WorkingCopyFresh(edited, post) == [edited EXCEPT ![post.id] = DeepCopy(post)]

WorkingCopy(edited, post) ==
    IF edited[post.id] = NoPost THEN [edited EXCEPT ![post.id] = DeepCopy(post)] ELSE edited

\* editButton onclick of the wrapper grid[k]: showEditPanel(post)
ShowEditPanel(k) ==
    /\ started /\ PanelClosed
    /\ k \in 1..Len(grid)
    /\ LET post == grid[k].post
           cur == FirstSelected(grid)
           g1 == IF cur # 0 /\ grid[cur].id # post.id
                 THEN [grid EXCEPT ![cur].selected = FALSE] ELSE grid
           target == FirstIndex(g1, post.id)
           g2 == [g1 EXCEPT ![target].selected = TRUE]
           postToUse == IF temporaryTagEdits[post.id] # NoPost
                        THEN temporaryTagEdits[post.id] ELSE post
           tte2 == WorkingCopy(temporaryTagEdits, post)
           pnl == [open |-> TRUE, id |-> post.id, post |-> post, sections |-> <<>>,
                   renders |-> panel.renders, orphan |-> NoPost, refetch |-> FALSE,
                   lastId |-> post.id, clean |-> TRUE,
                   second |-> (panel.lastId = post.id /\ panel.clean)]
           r == RenderTagsInPanel("wc", tte2[post.id], originalPostCache, tte2, pnl, g2)
       IN /\ selectionWidget' = SingleSelection(PromptOf(postToUse, promptSettings),
                                                ImageUrl(post))
          /\ temporaryTagEdits' = tte2
          /\ panel' = r.panel
          /\ grid' = r.grid
    /\ UNCHANGED <<posts, currentPage, isLoading, loads, gridStatus, tagHint, queryVars,
                   settingVars, originalPostCache, edits, tipVars, language, started>>

\* hasActualEdits of closePanel
HasActualEdits(originalPost, postDataToRender) ==
    /\ postDataToRender # NoPost
    /\ originalPost # NoPost
    /\ \/ \E cat \in CategorySet :
             ~compareTagStrings(originalPost.tags[cat], postDataToRender.tags[cat])
       \/ ~compareTagStrings(originalPost.tag_string, postDataToRender.tag_string)

NotLive(renders) == [i \in 1..Len(renders) |-> [renders[i] EXCEPT !.live = FALSE]]

\* what closePanel does with the working copy: keep it when edited, drop it otherwise
OverlayAfterClose(edited, id, hasEdits) ==
    IF hasEdits THEN edited ELSE [edited EXCEPT ![id] = NoPost]

\* closePanel(wasSelectedOnOpen): the close button passes true, the backdrop nothing
ClosePanel(wasSelectedOnOpen) ==
    /\ panel.open
    /\ panel' = [ClosedPanel EXCEPT !.renders = NotLive(panel.renders),
                                    !.lastId = panel.lastId, !.clean = panel.clean]
    /\ LET id == panel.id
           currentPostInArray == FindPost(posts, id)
       IN IF currentPostInArray = NoPost
          THEN UNCHANGED <<posts, temporaryTagEdits, originalPostCache, grid, selectionWidget>>
          ELSE LET hasActualEdits == HasActualEdits(originalPostCache[id], temporaryTagEdits[id])
                   postIndex == FirstIndex(posts, id)
                   posts2 == IF hasActualEdits
                             THEN [posts EXCEPT ![postIndex] = DeepCopy(temporaryTagEdits[id])]
                             ELSE posts
                   tte2 == OverlayAfterClose(temporaryTagEdits, id, hasActualEdits)
                   newPost == posts2[postIndex]
                   old == FirstIndex(grid, id)
                   cache2 == IF Renderable(newPost) THEN Capture(originalPostCache, newPost)
                             ELSE originalPostCache
                   newElement == NewElement(cache2, tte2, newPost)
                   g1 == IF Renderable(newPost)
                         THEN IF old # 0 THEN [grid EXCEPT ![old] = newElement]
                              ELSE <<newElement>> \o grid
                         ELSE IF old # 0 THEN RemoveAt(grid, old) ELSE grid
                   at == IF old # 0 THEN old ELSE 1
                   g2 == IF wasSelectedOnOpen
                         THEN IF Renderable(newPost) THEN [g1 EXCEPT ![at].selected = TRUE] ELSE g1
                         ELSE [i \in 1..Len(g1) |-> [g1[i] EXCEPT !.selected = FALSE]]
               IN /\ posts' = posts2
                  /\ temporaryTagEdits' = tte2
                  /\ originalPostCache' = cache2
                  /\ grid' = g2
                  /\ selectionWidget' =
                        IF wasSelectedOnOpen
                        THEN SingleSelection(PromptOf(newPost, promptSettings), ImageUrl(newPost))
                        ELSE EmptySelection
    /\ UNCHANGED <<currentPage, isLoading, loads, gridStatus, tagHint, queryVars,
                   settingVars, edits, tipVars, language, started>>

\* ------------------------------------------------------------------------
\* Tag deletion, addition and search from the spans of the panel
\* ------------------------------------------------------------------------
\* the caches after the object `obj` received the content `content`
WriteObj(obj, content) ==
    [edited |-> IF obj = "wc" THEN [temporaryTagEdits EXCEPT ![panel.id] = content]
                ELSE temporaryTagEdits,
     cache |-> IF obj = "orig" THEN [originalPostCache EXCEPT ![panel.id] = content]
               ELSE originalPostCache,
     orphan |-> IF obj = "orphan" THEN content ELSE panel.orphan]

\* the span handlers end with
\* renderTagsInPanel(tagsContainer, temporaryTagEdits[postData.id] || postData, panel)
MutateAndRender(obj, content) ==
    LET w == WriteObj(obj, content)
        target == IF w.edited[panel.id] # NoPost THEN "wc" ELSE obj
        shown == IF target = "wc" THEN w.edited[panel.id] ELSE content
        r == RenderTagsInPanel(target, shown, w.cache, w.edited,
                               [panel EXCEPT !.orphan = w.orphan, !.clean = FALSE], grid)
    IN /\ temporaryTagEdits' = w.edited
       /\ originalPostCache' = w.cache
       /\ panel' = r.panel
       /\ grid' = r.grid

\* a tag that a span of section b shows under category cat
Shown(b, cat, tag) ==
    /\ panel.open
    /\ b \in 1..Len(panel.sections)
    /\ cat \in CategorySet
    /\ tag # <<>>
    /\ Includes(panel.sections[b].tags[cat], tag)

\* deleteOption onclick: the tag string of the category after the splice
DeleteFrom(value, tag) ==
    IF Truthy(value)
    THEN LET tags == Split(value, " ")
             index == IndexOf(tags, tag)
         IN IF index > 0 THEN Join(RemoveAt(tags, index), <<" ">>) ELSE value
    ELSE value

DeleteTag(b, cat, tag) ==
    /\ Shown(b, cat, tag)
    /\ edits < MaxEdits
    /\ edits' = edits + 1
    /\ LET obj == panel.sections[b].obj
           content == ObjContent(obj)
       IN MutateAndRender(obj, [content EXCEPT !.tags[cat] = DeleteFrom(@, tag)])
    /\ UNCHANGED <<posts, currentPage, isLoading, loads, gridStatus, tagHint, queryVars,
                   settingVars, selectionWidget, tipVars, language, started>>

\* the tag strings typed into the add-tag input
AddInputs == { <<" ", "c", " ", "d">> }

\* input.value.trim().replace(/\s/g, '_')
NewTagOf(input) == ReplaceChar(Trim(input), " ", <<"_">>)

\* the tag string of the category after the push
AddTo(value, newTag) ==
    LET currentTags == IF Truthy(value) THEN Split(value, " ") ELSE <<>>
    IN IF ~Includes(currentTags, newTag) THEN Join(Append(currentTags, newTag), <<" ">>)
       ELSE value

\* Enter in the add-tag input of the section (b, cat), or a suggestion picked
AddTag(b, cat, input) ==
    /\ panel.open
    /\ b \in 1..Len(panel.sections)
    /\ cat \in CategorySet
    /\ panel.sections[b].tags[cat] # <<>>
    /\ input \in AddInputs
    /\ NewTagOf(input) # <<>>
    /\ edits < MaxEdits
    /\ edits' = edits + 1
    /\ LET obj == panel.sections[b].obj
           content == ObjContent(obj)
       IN MutateAndRender(obj, [content EXCEPT !.tags[cat] = AddTo(@, NewTagOf(input))])
    /\ UNCHANGED <<posts, currentPage, isLoading, loads, gridStatus, tagHint, queryVars,
                   settingVars, selectionWidget, tipVars, language, started>>

\* /,\s*$/.test(value)
EndsWithComma(value) == LET t == TrimRight(value) IN t # <<>> /\ t[Len(t)] = ","

\* searchOption onclick: the new search text
TagSearchValue(currentVal, tag) ==
    LET apiTag == ReplaceSpaceRuns(tag, <<"_">>)
    IN IF Truthy(currentVal) /\ ~EndsWithComma(currentVal)
       THEN currentVal \o <<",", " ">> \o apiTag \o <<",", " ">>
       ELSE IF Truthy(currentVal) THEN currentVal \o <<" ">> \o apiTag \o <<",", " ">>
       ELSE apiTag \o <<",", " ">>

\* searchOption onclick.  The dispatched 'input' event runs handleSearchInput, whose
\* own reload needs an empty new value; newValue always ends in "tag, ", so that
\* handler only records previousSearchValue.  The context menu is removed, the panel
\* stays open.
TagSearch(b, cat, tag) ==
    /\ Shown(b, cat, tag)
    /\ LET newValue == TagSearchValue(Trim(searchValue), tag)
       IN /\ Len(newValue) <= MaxSearchLen
          /\ searchValue' = newValue
          /\ previousSearchValue' = Trim(newValue)
          /\ FetchAndRenderCall(TRUE, filterState)
    /\ UNCHANGED <<othersOfLoad, rating, filterState, filterWidget, globalTooltip>>

\* ------------------------------------------------------------------------
\* resetTagsButton onclick
\* ------------------------------------------------------------------------
\* the working copy entry after the reset
OverlayAfterResetKept(edited, id) == edited

OverlayAfterReset(edited, id) == [edited EXCEPT ![id] = NoPost]

Orphaned(renders) ==
    [i \in 1..Len(renders) |->
        IF renders[i].live /\ renders[i].batch.obj = "wc"
        THEN [renders[i] EXCEPT !.batch.obj = "orphan"] ELSE renders[i]]

ResetTags ==
    /\ panel.open
    /\ LET id == panel.id
           originalPostData == originalPostCache[id]
       IN IF originalPostData # NoPost
          THEN LET postIndex == FirstIndex(posts, id)
                   posts2 == IF postIndex # 0
                             THEN [posts EXCEPT ![postIndex] = DeepCopy(originalPostData)]
                             ELSE posts
                   tte2 == OverlayAfterReset(temporaryTagEdits, id)
                   dropped == temporaryTagEdits[id] # NoPost /\ tte2[id] = NoPost
                   pnl == IF dropped
                          THEN [panel EXCEPT !.orphan = temporaryTagEdits[id],
                                             !.renders = Orphaned(@), !.clean = FALSE]
                          ELSE [panel EXCEPT !.clean = FALSE]
                   r == RenderTagsInPanel("orig", originalPostData, originalPostCache, tte2,
                                          pnl, grid)
               IN /\ posts' = posts2
                  /\ temporaryTagEdits' = tte2
                  /\ panel' = r.panel
                  /\ grid' = RefreshIndicator(r.grid, originalPostCache, tte2, id)
                  /\ selectionWidget' =
                        SingleSelection(PromptOf(originalPostData, promptSettings),
                                        ImageUrl(originalPostData))
          ELSE \* no snapshot: fetchOriginalPost is awaited
               /\ panel' = [panel EXCEPT !.refetch = TRUE, !.clean = FALSE]
               /\ UNCHANGED <<posts, temporaryTagEdits, grid, selectionWidget>>
    /\ UNCHANGED <<currentPage, isLoading, loads, gridStatus, tagHint, queryVars,
                   settingVars, originalPostCache, edits, tipVars, language, started>>

\* ------------------------------------------------------------------------
\* showSettingsDialog saveButton onclick
\* ------------------------------------------------------------------------
NoSave == [pending |-> FALSE]

\* if (filteredPosts.length < 20) fetchAndRender(false)
MinPostsAfterFilter == 20

\* the click, up to the await of the three saves
SettingsSaveClick(newBlacklist, newFilterTags, newFilterEnabled, newTooltip, newMulti) ==
    /\ started /\ PanelClosed
    /\ ~settingsSave.pending
    /\ settingsSave' = [pending |-> TRUE, blacklist |-> newBlacklist,
                        filterTags |-> newFilterTags, filterEnabled |-> newFilterEnabled,
                        tooltip |-> newTooltip, multi |-> newMulti]
    /\ UNCHANGED <<loadVars, tagHint, queryVars, currentBlacklist, uiSettings, promptSettings,
                   originalPostCache, editVars, selectionWidget, tipVars, language, started>>

\* a completion that takes over the blacklist as soon as its own save succeeded
SettingsSaveDoneBlacklistFirst(blacklistSuccess, filterSuccess, uiSettingsSuccess) ==
    /\ settingsSave.pending
    /\ settingsSave' = NoSave
    /\ currentBlacklist' = IF blacklistSuccess THEN settingsSave.blacklist ELSE currentBlacklist
    /\ UNCHANGED <<loadVars, promptSettings, uiSettings, originalPostCache, tagHint, queryVars,
                   editVars, selectionWidget, tipVars, language, started>>

\* saveBlacklist, saveFilterTags and saveUiSettings came back
SettingsSaveDone(blacklistSuccess, filterSuccess, uiSettingsSuccess) ==
    /\ settingsSave.pending
    \* the dialog is removed on success and stays under the toast saveFailed otherwise
    /\ settingsSave' = IF blacklistSuccess /\ filterSuccess /\ uiSettingsSuccess THEN NoSave
                       ELSE [pending |-> FALSE, toast |-> "saveFailed"]
    /\ IF blacklistSuccess /\ filterSuccess /\ uiSettingsSuccess
       THEN /\ currentPage <= PageCap
            /\ currentBlacklist' = settingsSave.blacklist
            /\ promptSettings' = [promptSettings EXCEPT
                                     !.currentFilterTags = settingsSave.filterTags,
                                     !.filterEnabled = settingsSave.filterEnabled]
            /\ uiSettings' = [multi_select_enabled |-> settingsSave.multi,
                              tooltip_enabled |-> settingsSave.tooltip]
            /\ LET filteredPosts == FilterPosts(posts, settingsSave.blacklist)
                   r == RenderPosts(filteredPosts, originalPostCache, temporaryTagEdits, <<>>)
               IN /\ originalPostCache' = r.cache
                  /\ IF Len(filteredPosts) < MinPostsAfterFilter
                     THEN FetchAndRenderFrom(FALSE, filterState, r.grid, {})
                     ELSE /\ grid' = r.grid
                          /\ gridStatus' = {}
                          /\ UNCHANGED <<posts, currentPage, isLoading, loads>>
       ELSE UNCHANGED <<loadVars, currentBlacklist, promptSettings, uiSettings,
                        originalPostCache>>
    /\ UNCHANGED <<tagHint, queryVars, editVars, selectionWidget, tipVars, language, started>>

\* ------------------------------------------------------------------------
\* The tooltip: mouseenter, its translation fetch, mouseleave
\* ------------------------------------------------------------------------
HiddenTooltip == [display |-> "none", details |-> 0, tags |-> <<>>, translated |-> FALSE]

\* if (thisTooltipId !== currentTooltipId) return;
TokenStaleNever(thisTooltipId) == FALSE

TokenStale(thisTooltipId) == thisTooltipId # currentTooltipId

\* allTags.length > 0 in the mouseenter handler
TooltipHasTags(post) ==
    \/ \E c \in CategorySet : Truthy(post.tags[c])
    \/ Truthy(post.tag_string)

MouseEnterReusingToken(k) ==
    /\ started /\ PanelClosed
    /\ k \in 1..Len(grid)
    /\ language = "zh"
    /\ tipRequests' = tipRequests \cup {[token |-> currentTooltipId, id |-> grid[k].id]}
    /\ globalTooltip' = [globalTooltip EXCEPT !.details = grid[k].id, !.tags = <<>>,
                                             !.translated = FALSE]
    /\ UNCHANGED <<loadVars, tagHint, queryVars, settingVars, originalPostCache, editVars,
                   selectionWidget, currentTooltipId, language, started>>

\* mouseenter on the wrapper grid[k]
MouseEnter(k) ==
    /\ started /\ PanelClosed
    /\ k \in 1..Len(grid)
    /\ uiSettings.tooltip_enabled
    /\ currentTooltipId < MaxToken
    /\ LET post == grid[k].post
           thisTooltipId == currentTooltipId + 1
           cleared == [globalTooltip EXCEPT !.details = post.id, !.tags = <<>>,
                                            !.translated = FALSE]
       IN /\ currentTooltipId' = thisTooltipId
          /\ IF language = "zh" /\ TooltipHasTags(post)
             THEN /\ tipRequests' = tipRequests \cup {[token |-> thisTooltipId, id |-> post.id]}
                  /\ globalTooltip' = cleared
             ELSE /\ tipRequests' = tipRequests
                  /\ globalTooltip' = [cleared EXCEPT !.tags = <<post.id>>, !.display = "block"]
    /\ UNCHANGED <<loadVars, tagHint, queryVars, settingVars, originalPostCache, editVars,
                   selectionWidget, language, started>>

TooltipFetchDoneFailHides(req, success) ==
    /\ req \in tipRequests
    /\ tipRequests' = tipRequests \ {req}
    /\ IF TokenStale(req.token) \/ ~success
       THEN UNCHANGED globalTooltip
       ELSE globalTooltip' = [globalTooltip EXCEPT !.tags = Append(@, req.id),
                                                   !.translated = TRUE,
                                                   !.display = "block"]
    /\ UNCHANGED <<loadVars, tagHint, queryVars, settingVars, originalPostCache, editVars,
                   selectionWidget, currentTooltipId, language, started>>

\* the translation fetch of a mouseenter came back: with translations (success), or
\* it was rejected, was not JSON or said success: false, and translations stays {}.
\* The tag spans are "tag [translation]" with a translation and "tag" without.
TooltipFetchDone(req, success) ==
    /\ req \in tipRequests
    /\ tipRequests' = tipRequests \ {req}
    /\ IF TokenStale(req.token)
       THEN UNCHANGED globalTooltip
       ELSE globalTooltip' = [globalTooltip EXCEPT !.tags = Append(@, req.id),
                                                   !.translated = success,
                                                   !.display = "block"]
    /\ UNCHANGED <<loadVars, tagHint, queryVars, settingVars, originalPostCache, editVars,
                   selectionWidget, currentTooltipId, language, started>>

MouseLeaveNoAdvance ==
    /\ started
    /\ grid # <<>>
    /\ globalTooltip.display = "block"
    /\ globalTooltip' = [globalTooltip EXCEPT !.display = "none"]
    /\ UNCHANGED <<loadVars, tagHint, queryVars, settingVars, originalPostCache, editVars,
                   selectionWidget, currentTooltipId, tipRequests, language, started>>

\* mouseleave on a wrapper
MouseLeave ==
    /\ started
    /\ grid # <<>>
    /\ currentTooltipId < MaxToken
    /\ currentTooltipId' = currentTooltipId + 1
    /\ globalTooltip' = [globalTooltip EXCEPT !.display = "none"]
    /\ UNCHANGED <<loadVars, tagHint, queryVars, settingVars, originalPostCache, editVars,
                   selectionWidget, tipRequests, language, started>>

\* ------------------------------------------------------------------------
\* The state after construction
\* ------------------------------------------------------------------------
\* uiSettings.selected_categories, uiSettings.formatting, filterEnabled, currentFilterTags
DefaultPrompt == [categories |-> {"copyright", "character", "general"},
                  replaceUnderscores |-> TRUE,
                  escapeBrackets |-> TRUE, filterEnabled |-> TRUE,
                  currentFilterTags |-> <<>>]

InitWith(lang, blacklist, ui, ps) ==
    /\ posts = <<>>
    /\ currentPage = 1
    /\ isLoading = FALSE
    /\ loads = <<>>
    /\ grid = <<>>
    /\ gridStatus = {}
    /\ tagHint = FALSE
    /\ searchValue = <<>>
    /\ previousSearchValue = <<>>
    /\ rating = ""
    /\ filterState = DefaultFilter
    /\ filterWidget = DefaultFilter
    /\ currentBlacklist = blacklist
    /\ uiSettings = ui
    /\ promptSettings = ps
    /\ settingsSave = NoSave
    /\ originalPostCache = [id \in PostIds |-> NoPost]
    /\ temporaryTagEdits = [id \in PostIds |-> NoPost]
    /\ panel = ClosedPanel
    /\ selectionWidget = EmptySelection
    /\ currentTooltipId = 0
    /\ tipRequests = {}
    /\ globalTooltip = HiddenTooltip
    /\ language = lang
    /\ edits = 0
    /\ started = FALSE

Languages == {"en", "zh"}

DefaultUi == [multi_select_enabled |-> FALSE, tooltip_enabled |-> TRUE]

\* ------------------------------------------------------------------------
\* Page loading: every trigger of fetchAndRender
\* ------------------------------------------------------------------------
s_abcd == <<"a", ",", " ", "b", ",", " ", "c", ",", " ", "d">>

SearchTexts == {<<>>, s_abcd}

LoadLists == { <<PostA>> }

InitLoad == InitWith("en", <<>>, DefaultUi, DefaultPrompt)

Loaded(lists) ==
    \E i \in 1..Len(loads) :
        \/ \E connected \in BOOLEAN : NetworkChecked(i, connected)
        \/ \E resp \in Responses(loads[i].query.page, lists) : PostsReturned(i, resp)

NextLoad ==
    \/ InitializeApp
    \/ Scroll
    \/ RefreshClick
    \/ SearchEnter
    \/ \E value \in SearchTexts : SearchInput(value)
    \/ RatingChange("s")
    \/ FilterReset
    \/ \E value \in {<<"x">>, <<"2">>} : FilterApplyPage(value)
    \/ Loaded(LoadLists)
    \/ TagHintTimeout
    \/ SettingsSaveClick(<<s_gore>>, promptSettings.currentFilterTags,
                         promptSettings.filterEnabled, uiSettings.tooltip_enabled,
                         uiSettings.multi_select_enabled)
    \/ \E ok \in BOOLEAN : SettingsSaveDone(ok, TRUE, TRUE)
    \/ \E k \in 1..Len(grid) : ShowEditPanel(k)
    \/ ClosePanel(TRUE)
    \/ \E b \in 1..Len(panel.sections), cat \in CategorySet :
          \E n \in 1..Len(panel.sections[b].tags[cat]) :
              TagSearch(b, cat, panel.sections[b].tags[cat][n])

\* C2: a call of fetchAndRender made while isLoading is set issues no request and
\* leaves posts, currentPage, isLoading, the grid and its status paragraphs as they
\* were, whichever trigger made the call.
C2_DroppedWhileLoading ==
    [][(isLoading /\ (\/ Scroll
                      \/ SearchEnter
                      \/ RatingChange("s")
                      \/ FilterReset
                      \/ \E value \in SearchTexts : SearchInput(value)
                      \/ \E value \in {<<"x">>, <<"2">>} : FilterApplyPage(value)
                      \/ \E b \in 1..Len(panel.sections), cat \in CategorySet :
                            \E n \in 1..Len(panel.sections[b].tags[cat]) :
                                TagSearch(b, cat, panel.sections[b].tags[cat][n])))
          => UNCHANGED loadVars]_vars

\* the rating was changed after the outstanding request was built: the
\* fetchAndRender(true) of the change listener was dropped
C2_Witness ==
    /\ isLoading
    /\ Len(loads) = 1
    /\ loads[1].stage = "posts"
    /\ loads[1].query.rating # rating
    /\ posts # <<>>

\* C3: in every reachable state at most one invocation of fetchAndRender is past
\* the guard, and isLoading is set exactly while one is.
C3_OneOutstanding ==
    /\ Len(loads) <= 1
    /\ isLoading <=> loads # <<>>

\* the tag search of the edit panel started the one outstanding load
C3_Witness ==
    /\ panel.open
    /\ Len(loads) = 1
    /\ loads[1].stage = "posts"
    /\ loads[1].query.text = <<"a", ",">>
    /\ settingsSave.pending

\* C4: for the search text "a, b, c, d" the query of the request holds the tags a
\* and b and neither c nor d.
C4_FirstTwoTagsOnly ==
    \A i \in 1..Len(loads) :
        (loads[i].stage = "posts" /\ loads[i].query.text = s_abcd)
            => /\ Includes(loads[i].query.tags, "a")
               /\ Includes(loads[i].query.tags, "b")
               /\ ~Includes(loads[i].query.tags, "c")
               /\ ~Includes(loads[i].query.tags, "d")

\* C19: a page load that fails (no connection, the fetch rejects, the answer is
\* not a list) leaves currentPage and posts as they were and leaves the grid with
\* the error paragraph alone; posts grows only in the step of a load that got a
\* list, and that step advances currentPage by one.
C19_AdvanceOnlyOnSuccess ==
    [][/\ \A i \in 1..Len(loads) :
             (\/ NetworkChecked(i, FALSE)
              \/ \E kind \in {"nonlist", "reject"} :
                    PostsReturned(i, [kind |-> kind, list |-> <<>>]))
             => /\ currentPage' = currentPage
                /\ posts' = posts
                /\ grid' = <<>>
                /\ gridStatus' = {"error"}
       /\ Len(posts') > Len(posts) =>
             /\ currentPage' = currentPage + 1
             /\ \E i \in 1..Len(loads) :
                   \E list \in LoadLists : PostsReturned(i, [kind |-> "list", list |-> list])]_vars

\* the load of a second page failed: the error paragraph is shown, the posts of the
\* first page are kept and the next load will ask for page 2 again
C19_Witness ==
    /\ gridStatus = {"error"}
    /\ ~isLoading
    /\ posts # <<>>
    /\ currentPage = 2

\* C20: a call fetchAndRender(true) that passes the guard empties posts and sets
\* currentPage to the start page of the filter, 1 when it has none; currentPage
\* stays so until the request of that invocation is built, and the request asks
\* for that page.
C20_ResetAsksStartPage ==
    [][/\ (~isLoading /\ isLoading' /\ loads'[Len(loads')].reset) =>
             /\ posts' = <<>>
             /\ currentPage' = IF filterState'.startPage = NullPage THEN 1
                               ELSE filterState'.startPage[1]
       /\ \A i \in 1..Len(loads) :
             (loads[i].reset /\ loads[i].stage = "net") =>
                 /\ currentPage' = currentPage
                 /\ NetworkChecked(i, TRUE) => loads'[i].query.page = currentPage]_vars

\* the request of a reset load asks for page 2, the start page of the filter
C20_Witness ==
    /\ Len(loads) = 1
    /\ loads[1].reset
    /\ loads[1].stage = "posts"
    /\ filterState.startPage = <<2>>
    /\ loads[1].query.page = 2
    /\ posts = <<>>

\* C34: every request in flight asks for the page currentPage, and currentPage
\* changes in two ways only: a reset that passed the guard sets it, and the step of
\* a load that got a list moves it on by one.  So the pages loaded between two
\* resets are consecutive from the value set at the reset: none is skipped and none
\* that was appended is asked for again.
C34_ConsecutivePages ==
    /\ [](\A i \in 1..Len(loads) :
             loads[i].stage = "posts" => loads[i].query.page = currentPage)
    /\ [][currentPage' # currentPage =>
             \/ ~isLoading /\ isLoading' /\ posts' = <<>>
             \/ /\ currentPage' = currentPage + 1
                /\ \E i \in 1..Len(loads) :
                      \E list \in LoadLists \cup {<<>>} :
                          PostsReturned(i, [kind |-> "list", list |-> list])]_vars

\* pages 1 and 2 were appended one after the other and the third request, not a
\* reset, asks for page 3
C34_Witness ==
    /\ Len(posts) = 2
    /\ filterState.startPage = NullPage
    /\ Len(loads) = 1
    /\ ~loads[1].reset
    /\ loads[1].stage = "posts"
    /\ loads[1].query.page = 3

\* values of the number input of the filter dialog, and pairs of its time inputs
PageInputs == {<<"2">>, <<"0">>, <<"2", ".", "5">>, <<>>}

TimeInputs == {<<<<"2">>, <<"1">>>>, <<<<"1">>, <<"2">>>>, <<<<"1">>, <<>>>>}

NextPaging ==
    \/ InitializeApp
    \/ Scroll
    \/ RefreshClick
    \/ FilterReset
    \/ \E value \in PageInputs : FilterApplyPage(value)
    \/ \E t \in TimeInputs : FilterApplyTime(t[1], t[2])
    \/ Loaded(LoadLists)

\* every pending network call (the connectivity probe, the posts request) resolves
\* or rejects in the end
SpecPaging == InitLoad /\ [][NextPaging]_vars /\ WF_vars(Loaded(LoadLists))

\* C22: a set isLoading is cleared in the end; the step in which a load fails
\* (no connection, a rejection, a non-list) or finds nothing clears it; a load
\* called while isLoading is clear is accepted, and the request of a load that
\* does not reset asks for currentPage, which a failed load left as it was.
C22_LoadingCleared ==
    /\ isLoading ~> ~isLoading
    /\ [][/\ \A i \in 1..Len(loads) :
               (\/ NetworkChecked(i, FALSE)
                \/ \E resp \in Responses(loads[i].query.page, LoadLists) :
                      PostsReturned(i, resp))
               => ~isLoading' /\ loads' = <<>>
          /\ (~isLoading /\ (Scroll \/ RefreshClick)) => (isLoading' /\ Len(loads') = 1)
          /\ \A i \in 1..Len(loads) :
                (~loads[i].reset /\ NetworkChecked(i, TRUE))
                    => loads'[i].query.page = currentPage]_vars

\* the load of page 2 failed and a scroll started another load: its request asks
\* for page 2 again, the error paragraph still in the grid
C22_Witness ==
    /\ Len(loads) = 1
    /\ ~loads[1].reset
    /\ loads[1].stage = "posts"
    /\ loads[1].query.page = 2
    /\ currentPage = 2
    /\ gridStatus = {"error", "loading"}
    /\ posts # <<>>

\* C27: applying a time range whose end is before its start, or a start page that
\* is not the numeral of a positive integer, changes neither filterState nor the
\* filter_data widget nor posts and starts no load.
C27_InvalidFilterRejected ==
    [][LET IsDigit(c) == c \in {"0", "1", "2", "3", "4", "5", "6", "7", "8", "9"}
           PositiveInteger(v) == /\ v # <<>>
                                 /\ \A i \in 1..Len(v) : IsDigit(v[i])
                                 /\ \E i \in 1..Len(v) : v[i] # "0"
           rejected == UNCHANGED <<filterState, filterWidget, posts, currentPage,
                                   isLoading, loads>>
       IN /\ \A t \in TimeInputs :
                (Truthy(t[1]) /\ Truthy(t[2]) /\ StrLess(t[2], t[1])
                    /\ FilterApplyTime(t[1], t[2])) => rejected
          /\ \A value \in PageInputs :
                (value # <<>> /\ ~PositiveInteger(value) /\ FilterApplyPage(value))
                    => rejected]_vars

\* C28: filterState never holds a start page together with a start or an end time,
\* and the filter_data widget holds filterState; a reset of the filter leaves the
\* three fields empty, an apply either leaves filterState as it was or leaves it
\* with the values applied and the fields of the other kind empty, and no other
\* step changes filterState.
C28_FilterExclusive ==
    /\ [](/\ filterWidget = filterState
          /\ filterState.startPage # NullPage =>
                (~Truthy(filterState.startTime) /\ ~Truthy(filterState.endTime)))
    /\ [][LET orNull(v) == IF v = <<>> THEN Undefined ELSE v
          IN /\ FilterReset =>
                   filterState' = [startTime |-> Undefined, endTime |-> Undefined,
                                   startPage |-> NullPage]
             /\ \A t \in TimeInputs :
                   FilterApplyTime(t[1], t[2]) =>
                       \/ filterState' = filterState
                       \/ filterState' = [startTime |-> orNull(t[1]), endTime |-> orNull(t[2]),
                                          startPage |-> NullPage]
             /\ \A value \in PageInputs :
                   FilterApplyPage(value) =>
                       \/ filterState' = filterState
                       \/ /\ filterState'.startTime = Undefined
                          /\ filterState'.endTime = Undefined
                          /\ value = <<>> => filterState'.startPage = NullPage
                          /\ value = <<"2">> => filterState'.startPage = <<2>>
             /\ filterState' # filterState =>
                   \/ FilterReset
                   \/ \E t \in TimeInputs : FilterApplyTime(t[1], t[2])
                   \/ \E value \in PageInputs : FilterApplyPage(value)]_vars

\* a time range was applied while the load of the start page 2 was pending: the
\* start page is gone from filterState
C28_Witness ==
    /\ filterState = [startTime |-> <<"1">>, endTime |-> <<"2">>, startPage |-> NullPage]
    /\ filterWidget = filterState
    /\ isLoading
    /\ currentPage = 2
    /\ posts = <<>>

SpecLoad == InitLoad /\ [][NextLoad]_vars


\* ------------------------------------------------------------------------
\* The tooltip over a loaded grid
\* ------------------------------------------------------------------------
NextTip ==
    \/ InitializeApp
    \/ Loaded({ <<PostA, PostGore>> })
    \/ RatingChange("s")
    \/ \E k \in 1..Len(grid) : MouseEnter(k)
    \/ MouseLeave
    \/ \E req \in tipRequests : \E success \in BOOLEAN : TooltipFetchDone(req, success)

SpecTip ==
    /\ \E lang \in Languages : InitWith(lang, <<>>, DefaultUi, DefaultPrompt)
    /\ [][NextTip]_vars

\* the tag sections in the tooltip are those of the cell whose details it shows
C1_TagsOfActiveHover ==
    \/ globalTooltip.tags = <<>>
    \/ globalTooltip.tags = <<globalTooltip.details>>

\* a fetch completion whose token is not the latest issued one leaves the tooltip alone
C1_StaleCompletionMute ==
    \A req \in tipRequests :
        (/\ req.token # currentTooltipId
         /\ \E success \in BOOLEAN : TooltipFetchDone(req, success)) => UNCHANGED globalTooltip

\* C1: the tooltip never holds the tags of a cell other than the one hovered last,
\* and the completion of a translation fetch whose token (thisTooltipId) is not the
\* latest issued token (currentTooltipId) changes nothing of the tooltip: neither
\* its content nor its visibility.
C1_NoStaleRender == []C1_TagsOfActiveHover /\ [][C1_StaleCompletionMute]_vars

\* cell A then cell B were entered before A's fetch resolved; B's fetch came back
\* first and was rendered, A's is still on its way with a token that is stale
C1_Witness ==
    /\ language = "zh"
    /\ currentTooltipId = 2
    /\ tipRequests = {[token |-> 1, id |-> 1]}
    /\ globalTooltip = [display |-> "block", details |-> 2, tags |-> <<2>>,
                        translated |-> TRUE]

\* C23: a mouseleave advances the token and hides the tooltip, every fetch issued
\* before it then carries an older token, and the completion of a fetch with an
\* older token leaves the tooltip as it is; a hidden tooltip becomes visible only
\* by a mouseenter that renders at once or by the completion of the fetch that
\* carries the latest token.
C23_LeaveInvalidates ==
    [][/\ MouseLeave =>
             /\ currentTooltipId' > currentTooltipId
             /\ globalTooltip'.display = "none"
             /\ \A req \in tipRequests' : req.token < currentTooltipId'
       /\ \A req \in tipRequests :
             (req.token < currentTooltipId /\ req \notin tipRequests')
                 => UNCHANGED globalTooltip
       /\ (globalTooltip.display = "none" /\ globalTooltip'.display = "block") =>
             \/ \E k \in 1..Len(grid) : MouseEnter(k)
             \/ \E req \in tipRequests :
                   req.token = currentTooltipId /\ req \notin tipRequests']_vars

\* the fetch of a hover is still pending after the mouseleave: the tooltip is
\* hidden and the token of the fetch is stale
C23_Witness ==
    /\ language = "zh"
    /\ currentTooltipId = 2
    /\ tipRequests = {[token |-> 1, id |-> 1]}
    /\ globalTooltip.display = "none"
    /\ globalTooltip.details = 1

\* C24: currentTooltipId never decreases; a mouseenter that starts a fetch gives it
\* a token greater than the token counter was and than the token of every fetch
\* pending; no two pending fetches carry the same token, and none a token beyond
\* the counter.
C24_TokenIncreasing ==
    /\ [](\A r1, r2 \in tipRequests :
             /\ r1.token <= currentTooltipId
             /\ r1.token = r2.token => r1 = r2)
    /\ [][/\ currentTooltipId' >= currentTooltipId
          /\ \A req \in tipRequests' \ tipRequests :
                /\ req.token = currentTooltipId'
                /\ req.token > currentTooltipId
                /\ \A old \in tipRequests : req.token > old.token]_vars

\* three fetches pending at once, with the tokens 1, 2 and 4: a mouseleave took
\* the token 3
C24_Witness ==
    /\ currentTooltipId = 4
    /\ {req.token : req \in tipRequests} = {1, 2, 4}

\* C25: when the translation fetch of a hover fails and its token is the latest,
\* the tooltip is shown with the tag sections of the hovered post, its tags without
\* translations, and the status paragraphs of the grid stay as they are.
C25_FailureShowsSourceTags ==
    [][\A req \in tipRequests :
          (req.token = currentTooltipId /\ TooltipFetchDone(req, FALSE)) =>
              /\ globalTooltip'.display = "block"
              /\ globalTooltip'.details = req.id
              /\ globalTooltip'.tags = <<req.id>>
              /\ ~globalTooltip'.translated
              /\ UNCHANGED <<gridStatus, tagHint>>]_vars

\* Chinese locale: the tooltip of the first cell is shown without translations
C25_Witness ==
    /\ language = "zh"
    /\ tipRequests = {}
    /\ globalTooltip = [display |-> "block", details |-> 1, tags |-> <<1>>,
                        translated |-> FALSE]

\* ------------------------------------------------------------------------
FilterLists == { <<PostA, PostGore, PostFlat>>, <<PostVideo, PostNoType, PostUrlVideo>>,
                 <<PostGore, PostVideo>> }

NextFilter ==
    \/ InitializeApp
    \/ Scroll
    \/ RefreshClick
    \/ Loaded(FilterLists)
    \/ \E newBlacklist \in {<<>>, <<s_a>>} :
          SettingsSaveClick(newBlacklist, promptSettings.currentFilterTags,
                            promptSettings.filterEnabled, uiSettings.tooltip_enabled,
                            uiSettings.multi_select_enabled)
    \/ SettingsSaveDone(TRUE, TRUE, TRUE)

SpecFilter ==
    /\ \E blacklist \in {<<>>, <<s_gore>>, <<<<" ">> \o <<"G", "o", "r", "e">>>>} :
          InitWith("en", blacklist, DefaultUi, DefaultPrompt)
    /\ [][NextFilter]_vars

\* C26: when the list a reset load receives holds no post that passes the filter,
\* the grid shows the noResults paragraph alone, not the error paragraph, posts
\* stays empty, currentPage stays and isLoading is cleared.
C26_EmptyFirstPage ==
    [][\A i \in 1..Len(loads) :
          \A list \in FilterLists \cup {<<>>} :
              (/\ loads[i].reset
               /\ FilterPosts(list, currentBlacklist) = <<>>
               /\ PostsReturned(i, [kind |-> "list", list |-> list]))
              => /\ gridStatus' = {"noResults"}
                 /\ grid' = <<>>
                 /\ posts = <<>> /\ posts' = <<>>
                 /\ currentPage' = currentPage
                 /\ ~isLoading']_vars

\* a reset load under a blacklist found no post that passes the filter
C26_Witness ==
    /\ gridStatus = {"noResults"}
    /\ currentBlacklist # <<>>
    /\ posts = <<>>
    /\ currentPage = 1
    /\ ~isLoading

\* the posts of the model whose file type is in the allow-list: ids 1 to 3 (png and
\* jpg); id 4 is a video, id 5 has neither an extension nor a URL
C5_TypeAllowed(post) == post.id \in {1, 2, 3}

\* the tokens of the flat tag string and of the five categories
C5_Tokens(post) ==
    {t \in UNION {{Split(v, " ")[i] : i \in 1..Len(Split(v, " "))} :
                     v \in {post.tag_string} \cup {post.tags[c] : c \in CategorySet}} :
        t # Undefined}

\* no token of the post is a token of the blacklist, letter case aside
C5_NotBlacklisted(post, blacklist) ==
    \A k \in 1..Len(blacklist) :
        \A t \in C5_Tokens(post) : ToLowerCase(t) # ToLowerCase(Trim(blacklist[k]))

C5_Scenario == [kind |-> "list", list |-> <<PostA, PostGore, PostFlat>>]

\* C5: every post a page load appends to posts has an allowed file type and no
\* token of the blacklist in force at that load, letter case aside; of the three
\* posts PostA, PostGore, PostFlat exactly two are appended under the blacklist
\* ["gore"].
C5_AppendedPassedFilter ==
    [][/\ \A j \in (Len(posts) + 1)..Len(posts') :
             /\ C5_TypeAllowed(posts'[j])
             /\ C5_NotBlacklisted(posts'[j], currentBlacklist)
       /\ (currentBlacklist = <<s_gore>> /\ PostsReturned(1, C5_Scenario))
             => Len(posts') = Len(posts) + 2]_vars

\* the second page brought PostA and PostFlat again while "gore" is blacklisted
C5_Witness ==
    /\ currentBlacklist = <<s_gore>>
    /\ posts = <<PostA, PostFlat, PostA, PostFlat>>
    /\ Len(grid) = 4

\* ------------------------------------------------------------------------
\* Edit sessions
\* ------------------------------------------------------------------------
PanelAction ==
    \/ \E k \in 1..Len(grid) : ShowEditPanel(k)
    \/ \E wasSelectedOnOpen \in BOOLEAN : ClosePanel(wasSelectedOnOpen)
    \/ ResetTags
    \/ \E b \in 1..Len(panel.sections), cat \in CategorySet :
          \/ \E n \in 1..Len(panel.sections[b].tags[cat]) :
                \/ DeleteTag(b, cat, panel.sections[b].tags[cat][n])
                \/ TagSearch(b, cat, panel.sections[b].tags[cat][n])
          \/ \E input \in AddInputs : AddTag(b, cat, input)

\* the network is up and the endpoint answers with a list
LoadedList(lists) ==
    \E i \in 1..Len(loads) :
        \/ NetworkChecked(i, TRUE)
        \/ \E l \in lists : PostsReturned(i, [kind |-> "list", list |-> l])

NextEdit ==
    \/ InitializeApp
    \/ LoadedList({ <<PostA>>, <<PostA2>> })
    \/ PanelAction

SpecEdit == InitLoad /\ [][NextEdit]_vars

\* C6: a snapshot in originalPostCache, once taken, is never changed by any step.
C6_SnapshotNeverMutated ==
    [][\A id \in PostIds :
          originalPostCache[id] # NoPost => originalPostCache'[id] = originalPostCache[id]]_vars

\* C7: right after the reset button restored a post that has a snapshot,
\* updateEditedStatus is false for it and its cell carries no edited indicator.
C7_UneditedAfterReset ==
    [][(ResetTags /\ originalPostCache[panel.id] # NoPost)
          => /\ ~updateEditedStatus(originalPostCache', temporaryTagEdits', panel.id)
             /\ \A k \in 1..Len(grid') : grid'[k].id = panel.id /\ k = FirstIndex(grid', panel.id)
                                            => ~grid'[k].edited]_vars

\* the reset dropped an edited working copy: the panel shows the snapshot again
\* and the cell lost its indicator
C7_Witness ==
    /\ panel.open
    /\ edits > 0
    /\ ~panel.clean
    /\ temporaryTagEdits[panel.id] = NoPost
    /\ Len(panel.sections) = 1
    /\ panel.sections[1].obj = "orig"
    /\ originalPostCache[panel.id] = PostA
    /\ \E k \in 1..Len(grid) : grid[k].id = panel.id /\ ~grid[k].edited

\* C8 as stated: when the panel is open for a post for the second time in a row
\* and no tag was added, deleted or reset since the first of the two opens,
\* updateEditedStatus is false for the post, whatever happened before.
C8_SecondOpenUnedited ==
    (panel.open /\ panel.second /\ panel.clean)
        => ~updateEditedStatus(originalPostCache, temporaryTagEdits, panel.id)

\* C8, amended: showEditPanel re-uses an existing working copy as it is and
\* otherwise creates it as a copy of the post of the cell; the edited status of a
\* post with a working copy is the same after the open as before, and it is false
\* after the open for a post without one whose cell shows the snapshot's data.
C8_OpenKeepsStatus ==
    [][\A k \in 1..Len(grid) :
          ShowEditPanel(k) =>
             LET id == grid[k].id
                 after == updateEditedStatus(originalPostCache', temporaryTagEdits', id)
             IN IF temporaryTagEdits[id] # NoPost
                THEN /\ temporaryTagEdits'[id] = temporaryTagEdits[id]
                     /\ after = updateEditedStatus(originalPostCache, temporaryTagEdits, id)
                ELSE /\ temporaryTagEdits'[id] = grid[k].post
                     /\ grid[k].post = originalPostCache[id] => ~after]_vars

\* the second open in a row of a post whose edit an earlier close committed: the
\* working copy is the edited one and the post still counts as edited
C8_Witness ==
    /\ panel.open /\ panel.second /\ panel.clean
    /\ edits > 0
    /\ originalPostCache[panel.id] = PostA
    /\ temporaryTagEdits[panel.id] # NoPost
    /\ FindPost(posts, panel.id) = temporaryTagEdits[panel.id]
    /\ updateEditedStatus(originalPostCache, temporaryTagEdits, panel.id)

\* C10: whichever way the panel is closed, an unedited working copy is gone from
\* temporaryTagEdits afterwards; an edited one replaces the entry of its post in
\* posts, and the snapshot stays as it was.
C10_CommitOrDiscard ==
    [][\A wasSelectedOnOpen \in BOOLEAN :
          ClosePanel(wasSelectedOnOpen) =>
             LET id == panel.id
                 i == FirstIndex(posts, id)
             IN IF ~updateEditedStatus(originalPostCache, temporaryTagEdits, id)
                THEN temporaryTagEdits'[id] = NoPost
                ELSE /\ i # 0 => posts'[i] = temporaryTagEdits[id]
                     /\ originalPostCache'[id] = originalPostCache[id]]_vars

\* C32: a snapshot that exists is still there, with the same content, after every
\* step that is not a tag deletion or addition: after each cache reset, each page
\* of posts rendered (the same id with the same or other tags) and each re-render of
\* a cell from an edited entry of posts.
C32_SnapshotSurvives ==
    [][edits' = edits =>
          \A id \in PostIds :
              originalPostCache[id] # NoPost => originalPostCache'[id] = originalPostCache[id]]_vars

\* post 1 was rendered, the cache was reset, and the reload returned it with other
\* tags: the only cell shows the new data, the snapshot the data seen first
C32_Witness ==
    /\ edits = 0
    /\ posts = <<PostA2>>
    /\ Len(grid) = 1 /\ grid[1].post = PostA2
    /\ originalPostCache[1] = PostA

\* C38: every cell of the grid, and the post of an open edit panel, has a snapshot
\* in originalPostCache, and the reset button never took the branch that fetches the
\* original post again for want of a snapshot.
C38_RenderedHasSnapshot ==
    /\ \A k \in 1..Len(grid) : originalPostCache[grid[k].id] # NoPost
    /\ panel.open => originalPostCache[panel.id] # NoPost
    /\ ~panel.refetch

\* the reset button was pressed in the panel of a post of the grid and found the
\* snapshot: the working copy is gone and the panel shows the snapshot's tags
C38_Witness ==
    /\ panel.open
    /\ edits = 0
    /\ ~panel.clean
    /\ ~panel.refetch
    /\ temporaryTagEdits[panel.id] = NoPost
    /\ \E k \in 1..Len(grid) : grid[k].id = panel.id
    /\ panel.sections = <<[obj |-> "orig", tags |-> CategorizedTags(originalPostCache[panel.id])]>>

\* C31: a tag deletion or addition in the panel leaves posts, every snapshot and the
\* working copies of the other posts as they were, and changes the working copy of
\* the panel's post in the tag string of one category at most.
C31_EditTouchesOneCategory ==
    [][edits' # edits =>
          LET before == temporaryTagEdits[panel.id]
              after == temporaryTagEdits'[panel.id]
          IN /\ posts' = posts
             /\ originalPostCache' = originalPostCache
             /\ \A id \in PostIds \ {panel.id} : temporaryTagEdits'[id] = temporaryTagEdits[id]
             /\ IF before = NoPost \/ after = NoPost THEN after = before
                ELSE \E cat \in CategorySet :
                        after = [before EXCEPT !.tags[cat] = after.tags[cat]]]_vars

\* ------------------------------------------------------------------------
\* Edit sessions under the Chinese locale: renderTagsInPanel awaits translations
\* ------------------------------------------------------------------------
\* translation fetches of the edit panel pending at once
MaxRenders == 2


\* the handlers that start a render, while fewer than MaxRenders are pending
StartsRender ==
    /\ Len(panel.renders) < MaxRenders
    /\ \/ \E k \in 1..Len(grid) : ShowEditPanel(k)
       \/ ResetTags
       \/ \E b \in 1..Len(panel.sections), cat \in CategorySet :
             \/ \E n \in 1..Len(panel.sections[b].tags[cat]) :
                   DeleteTag(b, cat, panel.sections[b].tags[cat][n])
             \/ \E input \in AddInputs : AddTag(b, cat, input)

NextEditZh ==
    \/ InitializeApp
    \/ LoadedList({ <<PostA>> })
    \/ StartsRender
    \/ \E wasSelectedOnOpen \in BOOLEAN : ClosePanel(wasSelectedOnOpen)
    \/ \E r \in 1..Len(panel.renders) : RenderDone(r)

SpecEditZh == InitWith("zh", <<>>, DefaultUi, DefaultPrompt) /\ [][NextEditZh]_vars

\* C36: once tags were deleted or added and no render into the open panel awaits
\* its translations any more, the panel shows one list of sections, rendered from
\* the current tags of its post (the working copy, the snapshot after a reset): each
\* tag once, no deleted tag.
C36_PanelShowsCurrentTags ==
    (/\ panel.open
     /\ edits > 0
     /\ \A r \in 1..Len(panel.renders) : ~panel.renders[r].live)
        => LET current == IF temporaryTagEdits[panel.id] # NoPost
                          THEN temporaryTagEdits[panel.id]
                          ELSE originalPostCache[panel.id]
           IN /\ Len(panel.sections) = 1
              /\ panel.sections[1].tags = CategorizedTags(current)

\* C11: whenever control is back at the event loop, every cell of the grid carries
\* the edited indicator exactly when updateEditedStatus is true for its post (a
\* working copy exists and differs from the snapshot).
C11_IndicatorMatchesStatus ==
    \A k \in 1..Len(grid) :
        grid[k].edited = updateEditedStatus(originalPostCache, temporaryTagEdits, grid[k].id)

\* ------------------------------------------------------------------------
\* Selection: image clicks, clear-all, edit sessions and settings saves over a
\* grid of two posts
\* ------------------------------------------------------------------------
\* the network is up; the endpoint holds one page, the given list
LoadedOnePage(list) ==
    \E i \in 1..Len(loads) :
        \/ NetworkChecked(i, TRUE)
        \/ PostsReturned(i, [kind |-> "list",
                             list |-> IF loads[i].query.page = 1 THEN list ELSE <<>>])

NextSelect ==
    \/ InitializeApp
    \/ LoadedOnePage(<<PostA, PostGore>>)
    \/ \E k \in 1..Len(grid) : ImageClick(k)
    \/ ClearAllSelections
    \/ \E k \in 1..Len(grid) : ShowEditPanel(k)
    \/ \E wasSelectedOnOpen \in BOOLEAN : ClosePanel(wasSelectedOnOpen)
    \/ \E b \in 1..Len(panel.sections) :
          \E n \in 1..Len(panel.sections[b].tags["general"]) :
              DeleteTag(b, "general", panel.sections[b].tags["general"][n])
    \/ SettingsSaveClick(currentBlacklist, promptSettings.currentFilterTags,
                         promptSettings.filterEnabled, uiSettings.tooltip_enabled,
                         ~uiSettings.multi_select_enabled)
    \/ SettingsSaveDone(TRUE, TRUE, TRUE)

SpecSelect ==
    /\ \E multi \in BOOLEAN :
          InitWith("en", <<>>, [multi_select_enabled |-> multi, tooltip_enabled |-> TRUE],
                   DefaultPrompt)
    /\ [][NextSelect]_vars

\* C37: whichever way the panel is closed (the close button passes true to
\* closePanel, the backdrop nothing), the cell of the edited post, if the post is
\* still in posts, is marked selected afterwards and the selection_data widget
\* holds the prompt and the image URL of that post.
C37_CloseKeepsSelection ==
    [][\A wasSelectedOnOpen \in BOOLEAN :
          (ClosePanel(wasSelectedOnOpen) /\ FindPost(posts, panel.id) # NoPost) =>
             LET id == panel.id
                 post == FindPost(posts', id)
                 k == FirstIndex(grid', id)
                 prompt == buildPromptForPost(post, temporaryTagEdits', promptSettings)
                 w == selectionWidget'
             IN /\ k # 0
                /\ grid'[k].selected
                /\ \/ w = SingleSelection(prompt, ImageUrl(post))
                   \/ /\ w.kind = "multi"
                      /\ \E n \in 1..Len(w.selections) :
                            w.selections[n] = [post_id |-> id, prompt |-> prompt,
                                               image_url |-> ImageUrl(post)]]_vars

\* C12: in single-select mode a click on an unselected cell Y while another cell X
\* is selected leaves Y as the only selected cell, and the selection_data widget
\* then holds one entry, with Y's id, Y's prompt (from its working copy when there
\* is one) and Y's image URL.
C12_ClickMovesSelection ==
    [][\A k \in 1..Len(grid) :
          (/\ ImageClick(k)
           /\ ~uiSettings.multi_select_enabled
           /\ ~grid[k].selected
           /\ \E j \in 1..Len(grid) : j # k /\ grid[j].selected)
          => LET id == grid[k].id
                 source == IF temporaryTagEdits[id] # NoPost THEN temporaryTagEdits[id]
                           ELSE FindPost(posts, id)
             IN /\ \A j \in 1..Len(grid') : grid'[j].selected <=> j = k
                /\ selectionWidget'.selections =
                      <<[post_id |-> id, prompt |-> PromptOf(source, promptSettings),
                         image_url |-> FindPost(posts, id).file_url]>>]_vars

\* single-select mode: the second cell is the only selected one and the widget
\* holds its entry alone
C12_Witness ==
    /\ ~uiSettings.multi_select_enabled
    /\ Len(grid) = 2
    /\ ~grid[1].selected /\ grid[2].selected
    /\ selectionWidget = [kind |-> "multi",
                          selections |-> <<[post_id |-> 2,
                                            prompt |-> <<"a", ",", " ", "g", "o", "r", "e">>,
                                            image_url |-> s_url_png]>>]

\* C13: while multi-select is disabled, at most one cell of the grid is marked
\* selected, whatever image clicks, panel opens and closes, settings saves and
\* page loads came before.
C13_AtMostOneSelected ==
    ~uiSettings.multi_select_enabled
        => Cardinality({k \in 1..Len(grid) : grid[k].selected}) <= 1

\* single-select mode, two cells, the first one selected after the panel of the
\* second was opened and closed by the backdrop and the first was clicked
C13_Witness ==
    /\ ~uiSettings.multi_select_enabled
    /\ Len(grid) = 2
    /\ grid[1].selected /\ ~grid[2].selected
    /\ temporaryTagEdits[2] # NoPost
    /\ PanelClosed

\* C14: in multi-select mode, opening the edit panel of a post keeps every selected
\* cell selected, and closing the panel with its close button leaves in the
\* selection_data widget the selection list of the selected cells, the prompt of
\* the edited post built from its edited tags.
C14_MultiEditKeepsList ==
    [][uiSettings.multi_select_enabled =>
          /\ \A k \in 1..Len(grid) :
                ShowEditPanel(k) => \A j \in 1..Len(grid) : grid[j].selected => grid'[j].selected
          /\ ClosePanel(TRUE) =>
                selectionWidget' = updateSelectionData(grid', posts', temporaryTagEdits',
                                                       promptSettings')]_vars

\* C15: in every state the selection_data widget holds the projection of the cells
\* marked selected, computed from the current posts, working copies and prompt
\* settings (whichever of its shapes the value has).
C15_ChannelInSync ==
    LET sel == SelectionsOf(grid, posts, temporaryTagEdits, promptSettings)
    IN CASE selectionWidget.kind = "empty" -> sel = <<>>
         [] selectionWidget.kind = "single" ->
                /\ Len(sel) = 1
                /\ sel[1].prompt = selectionWidget.prompt
                /\ sel[1].image_url = selectionWidget.image_url
         [] selectionWidget.kind = "multi" -> selectionWidget.selections = sel

\* C16: in single-select mode every step that changes the selection_data widget
\* leaves in it either the empty object, no cell being selected, or the single
\* object with the prompt and the image URL of the one selected post; never the
\* selections list.
C16_SingleShape ==
    [][(~uiSettings.multi_select_enabled /\ selectionWidget' # selectionWidget) =>
          LET sel == SelectionsOf(grid', posts', temporaryTagEdits', promptSettings')
          IN \/ selectionWidget'.kind = "empty" /\ sel = <<>>
             \/ /\ selectionWidget'.kind = "single"
                /\ Len(sel) = 1
                /\ sel[1].prompt = selectionWidget'.prompt
                /\ sel[1].image_url = selectionWidget'.image_url]_vars

NextMulti ==
    \/ InitializeApp
    \/ LoadedOnePage(<<PostA, PostGore>>)
    \/ RefreshClick
    \/ \E k \in 1..Len(grid) : ImageClick(k)
    \/ ClearAllSelections
    \/ \E k \in 1..Len(grid) : ShowEditPanel(k)
    \/ \E wasSelectedOnOpen \in BOOLEAN : ClosePanel(wasSelectedOnOpen)
    \/ panel.id = 1 /\ ResetTags
    \/ \E b \in 1..Len(panel.sections) :
          \E n \in 1..Len(panel.sections[b].tags["general"]) :
              DeleteTag(b, "general", panel.sections[b].tags["general"][n])

\* multi-select enabled throughout; a refresh reloads the posts as the source has
\* them; the reset button is pressed in the panel of the first post only.  The
\* category and formatting checkboxes and the prompt filter start in one
\* of four settings: the defaults; a category no post has tokens in, brackets not
\* escaped; underscores kept, a filter list in other letter case; a disabled filter.
SpecMulti ==
    /\ \E ps \in { DefaultPrompt,
                    [DefaultPrompt EXCEPT !.categories = {"artist"}, !.escapeBrackets = FALSE],
                    [DefaultPrompt EXCEPT !.replaceUnderscores = FALSE,
                                          !.currentFilterTags = <<<<" ", "G", "o", "r", "e">>, s_b>>],
                    [DefaultPrompt EXCEPT !.currentFilterTags = <<s_gore>>,
                                          !.filterEnabled = FALSE] } :
          InitWith("en", <<>>, [multi_select_enabled |-> TRUE, tooltip_enabled |-> TRUE], ps)
    /\ [][NextMulti]_vars

\* C17: in multi-select mode the list updateSelectionData writes (on an image click
\* and on clear-all) has one entry per selected cell, in the order of the grid, and
\* the prompt of an entry is built from the working copy of the post when
\* temporaryTagEdits holds one, otherwise from the entry of posts.
C17_MultiProjection ==
    [][(/\ uiSettings.multi_select_enabled
        /\ \/ ClearAllSelections
           \/ \E k \in 1..Len(grid) : ImageClick(k))
       => LET sel == {k \in 1..Len(grid') : grid'[k].selected}
              out == selectionWidget'.selections
          IN /\ Len(out) = Cardinality(sel)
             /\ \A k \in sel :
                   LET n == Cardinality({j \in sel : j <= k})
                       id == grid'[k].id
                       source == IF temporaryTagEdits[id] # NoPost
                                 THEN temporaryTagEdits[id] ELSE FindPost(posts, id)
                   IN /\ out[n].post_id = id
                      /\ out[n].prompt = PromptOf(source, promptSettings)]_vars

\* both cells selected and listed in grid order; the second post has a working copy
\* whose general tags differ from the reloaded entry of posts, and its prompt is
\* the one of the working copy
C17_Witness ==
    /\ uiSettings.multi_select_enabled
    /\ Len(grid) = 2
    /\ grid[1].selected /\ grid[2].selected
    /\ temporaryTagEdits[2] # NoPost
    /\ temporaryTagEdits[2].tags["general"] # FindPost(posts, 2).tags["general"]
    /\ selectionWidget.kind = "multi"
    /\ Len(selectionWidget.selections) = 2
    /\ selectionWidget.selections[1].post_id = 1
    /\ selectionWidget.selections[2].post_id = 2
    /\ selectionWidget.selections[2].prompt = PromptOf(temporaryTagEdits[2], promptSettings)

\* C18: the prompt that the open of the edit panel, its close button and its reset
\* button write for a post of the gallery is the one buildPromptForPost returns for
\* that post and the same settings.  It has one token per token of the enabled
\* categories of the post (of its flat tag string when those have none) that is
\* not, letter case aside, in the enabled prompt filter; the tokens are joined by
\* ", ", hold no underscore when underscores are replaced, and hold every bracket
\* behind a backslash exactly when brackets are escaped.
C18_PromptCopiesAgree ==
    [][   LET id == IF panel.open THEN panel.id ELSE panel'.id
              wrote == IF ~panel.open THEN panel'.open /\ \E k \in 1..Len(grid) : ShowEditPanel(k)
                       ELSE IF ~panel'.open THEN ClosePanel(TRUE)
                       ELSE originalPostCache[id] # NoPost /\ ResetTags
              postData == FindPost(posts', id)
              ps == promptSettings
              prompt == selectionWidget'.prompt
              postToUse == IF temporaryTagEdits'[id] # NoPost THEN temporaryTagEdits'[id]
                           ELSE postData
              enabled(c) == c \in ps.categories /\ Truthy(postToUse.tags[c])
              fromCategory(c) == IF enabled(c) THEN Split(postToUse.tags[c], " ") ELSE <<>>
              gathered == fromCategory("artist") \o fromCategory("copyright")
                              \o fromCategory("character") \o fromCategory("general")
                              \o fromCategory("meta")
              tokens == IF gathered # <<>> THEN gathered
                        ELSE Split(IF Truthy(postToUse.tag_string) THEN postToUse.tag_string
                                   ELSE <<>>, " ")
              filtered(t) == /\ ps.filterEnabled
                             /\ \E i \in 1..Len(ps.currentFilterTags) :
                                   Trim(ToLowerCase(ps.currentFilterTags[i])) = Trim(ToLowerCase(t))
              passes(t) == ~filtered(TrimLeft(t))
              kept == SelectSeq(tokens, passes)
              parts == Split(prompt, ",")
          IN (id # 0 /\ postData # NoPost /\ selectionWidget'.kind = "single" /\ wrote) =>
                /\ prompt = buildPromptForPost(postData, temporaryTagEdits', ps)
                /\ IF kept = <<>> THEN prompt = <<>> ELSE Len(parts) = Len(kept)
                /\ \A i \in 1..Len(prompt) :
                      prompt[i] = "," => (i < Len(prompt) /\ prompt[i + 1] = " ")
                /\ SelectSeq(parts, passes) = parts
                /\ ps.replaceUnderscores => \A i \in 1..Len(prompt) : prompt[i] # "_"
                /\ \A i \in 1..Len(prompt) :
                      prompt[i] \in {"(", ")"} =>
                          (ps.escapeBrackets <=> (i > 1 /\ prompt[i - 1] = "\\"))]_vars

\* the close button wrote the prompt of post 1 after an edit, underscores replaced
\* and brackets escaped: the tag b is gone
C18_Witness ==
    /\ PanelClosed
    /\ promptSettings = DefaultPrompt
    /\ temporaryTagEdits[1] # NoPost
    /\ selectionWidget = [kind |-> "single",
                          prompt |-> <<"c", " ", "\\", "(", "d", "\\", ")", ",", " ", "a">>,
                          image_url |-> s_url_png]

\* C35: while a post has a working copy, a tag of its snapshot that no category of
\* the working copy holds any more (a deleted tag) is not among the tags of the
\* prompt buildPromptForPost exports for the post, whatever categories are enabled.
C35_DeletedTagNotExported ==
    \A id \in PostIds :
        LET copy == temporaryTagEdits[id]
            original == originalPostCache[id]
            tokens(value) == IF Truthy(value) THEN Split(value, " ") ELSE <<>>
            exported == Split(buildPromptForPost(copy, temporaryTagEdits, promptSettings), ",")
        IN (copy # NoPost /\ original # NoPost) =>
              \A cat \in CategorySet :
                  \A n \in 1..Len(tokens(original.tags[cat])) :
                      LET tag == tokens(original.tags[cat])[n]
                      IN (\A c \in CategorySet : ~Includes(tokens(copy.tags[c]), tag))
                            => \A k \in 1..Len(exported) :
                                  Trim(exported[k]) # FormatTag(tag, promptSettings)

\* C21: when a call fetchAndRender(true) passes the guard and resets posts, no
\* working copy is left in temporaryTagEdits.
C21_ResetClearsOverlay ==
    [][(~isLoading /\ isLoading' /\ loads'[Len(loads')].reset) =>
          \A id \in PostIds : temporaryTagEdits'[id] = NoPost]_vars

\* C29: the step of a tag deletion or addition that changes a working copy leaves
\* every cell of that post with the indicator updateEditedStatus computes from the
\* changed working copy.
C29_EditObservedAtOnce ==
    [][\A id \in PostIds :
          (/\ temporaryTagEdits[id] # NoPost
           /\ temporaryTagEdits'[id] # NoPost
           /\ temporaryTagEdits'[id] # temporaryTagEdits[id])
          => \A k \in 1..Len(grid') :
                grid'[k].id = id =>
                    grid'[k].edited =
                        updateEditedStatus(originalPostCache', temporaryTagEdits', id)]_vars

\* ------------------------------------------------------------------------
\* updateEditedStatus on working copies that differ from the snapshot in order
\* ------------------------------------------------------------------------
\* a tag category holds at most this many tokens
MaxTags == 3

s_a_b_c == <<"a", " ", "b", " ", "c">>

\* the lists of n tokens out of a, b, c in ascending order, repeats included
TokenLists(n) ==
    {t \in [1..n -> {s_a, s_b, <<"c">>}] : \A i, j \in 1..n : i < j => ~StrLess(t[j], t[i])}

\* tag strings of a category: absent, or up to MaxTags tokens joined by blanks
TagStrings ==
    {Undefined} \cup {Join(t, <<" ">>) : t \in UNION {TokenLists(n) : n \in 0..MaxTags}}

\* the post with id 1 whose general and character tags are the given strings
PostWith(general, character) ==
    [PostA EXCEPT !.tags = [NoTags EXCEPT !["general"] = general, !["character"] = character]]

\* the arguments of compareTagStrings that hold no token: null, undefined, the empty
\* string and strings of white space only
NoTokenValues == {Null, Undefined, <<>>, <<" ">>, <<" ", " ">>}

\* a gallery that shows one post, edited earlier and committed, the panel closed
InitPerm ==
    \E original \in {s_a_b, s_a_b_c} \cup NoTokenValues,
       general \in TagStrings \cup NoTokenValues,
       character \in {s_c_d, s_a_b} :
        LET snapshot == PostWith(original, s_c_d)
            copy == PostWith(general, character)
            cache == [id \in PostIds |-> IF id = 1 THEN snapshot ELSE NoPost]
            edited == [id \in PostIds |-> IF id = 1 THEN copy ELSE NoPost]
        IN /\ posts = <<copy>>
           /\ currentPage = 2
           /\ isLoading = FALSE
           /\ loads = <<>>
           /\ grid = <<NewElement(cache, edited, copy)>>
           /\ gridStatus = {}
           /\ tagHint = FALSE
           /\ searchValue = <<>>
           /\ previousSearchValue = <<>>
           /\ rating = ""
           /\ filterState = DefaultFilter
           /\ filterWidget = DefaultFilter
           /\ currentBlacklist = <<>>
           /\ uiSettings = DefaultUi
           /\ promptSettings = DefaultPrompt
           /\ settingsSave = NoSave
           /\ originalPostCache = cache
           /\ temporaryTagEdits = edited
           /\ panel = ClosedPanel
           /\ selectionWidget = EmptySelection
           /\ currentTooltipId = 0
           /\ tipRequests = {}
           /\ globalTooltip = HiddenTooltip
           /\ language = "en"
           /\ edits = 0
           /\ started = TRUE

\* the orders a list of n tokens can be put in
Perms(n) == {p \in [1..n -> 1..n] : \A i, j \in 1..n : p[i] = p[j] => i = j}

\* the tag string with its tokens in the order p
Permuted(value, p) ==
    LET tokens == Split(value, " ")
    IN Join([i \in 1..Len(tokens) |-> tokens[p[i]]], <<" ">>)

\* the tokens of category cat of the working copy of post 1 are put in the order p
\* and updateEditedStatus(wrapper, 1) runs on the cell
ReorderAndUpdate(cat, p) ==
    /\ Truthy(temporaryTagEdits[1].tags[cat])
    /\ p \in Perms(Len(Split(temporaryTagEdits[1].tags[cat], " ")))
    /\ temporaryTagEdits' =
          [temporaryTagEdits EXCEPT ![1].tags[cat] = Permuted(@, p)]
    /\ grid' = RefreshIndicator(grid, originalPostCache, temporaryTagEdits', 1)
    /\ UNCHANGED <<posts, currentPage, isLoading, loads, gridStatus, tagHint, queryVars,
                   settingVars, originalPostCache, panel, edits, selectionWidget, tipVars,
                   language, started>>

NextPerm ==
    \E cat \in CategorySet :
        \E p \in Perms(Len(Split(temporaryTagEdits[1].tags[cat], " "))) :
            ReorderAndUpdate(cat, p)

SpecPerm == InitPerm /\ [][NextPerm]_vars

\* C9: putting the tokens of any category of the working copy in another order
\* changes neither what compareTagStrings says about that category nor the edited
\* status updateEditedStatus computes and shows.
C9_OrderIndependent ==
    [][\A cat \in CategorySet :
          /\ compareTagStrings(originalPostCache[1].tags[cat], temporaryTagEdits'[1].tags[cat])
                = compareTagStrings(originalPostCache[1].tags[cat], temporaryTagEdits[1].tags[cat])
          /\ updateEditedStatus(originalPostCache', temporaryTagEdits', 1)
                = updateEditedStatus(originalPostCache, temporaryTagEdits, 1)
          /\ grid'[1].edited = grid[1].edited]_vars

\* the working copy holds the tokens of the snapshot in another order, which no
\* initial state does, and counts as unedited
C9_Witness ==
    /\ originalPostCache[1].tags["general"] = s_a_b_c
    /\ temporaryTagEdits[1].tags["general"] = <<"c", " ", "a", " ", "b">>
    /\ temporaryTagEdits[1].tags["character"] = s_c_d
    /\ ~grid[1].edited

\* C30: compareTagStrings says of two values that hold no token (null, undefined, the
\* empty string, white space only) that they are equal, and of such a value and a
\* string with at least one token that they differ, in either order of the arguments.
C30_NoTokenValuesAlike ==
    \A cat \in CategorySet :
        LET str1 == originalPostCache[1].tags[cat]
            str2 == temporaryTagEdits[1].tags[cat]
        IN /\ (str1 \in NoTokenValues /\ str2 \in NoTokenValues)
                => (compareTagStrings(str1, str2) /\ compareTagStrings(str2, str1))
           /\ ((str1 \in NoTokenValues) # (str2 \in NoTokenValues))
                => (~compareTagStrings(str1, str2) /\ ~compareTagStrings(str2, str1))

\* ------------------------------------------------------------------------
\* A remote source whose answer depends on the query
\* ------------------------------------------------------------------------
\* the posts the source holds under a rating: no post of one rating is returned
\* when another is asked for
PostsOfRating(r) == IF r = "" THEN <<PostA>> ELSE <<PostGore>>

\* the answer to the request fetchAndRender built: "search[rating]" and page
SourceAnswer(query) ==
    IF query.page <= MaxPage THEN PostsOfRating(query.rating) ELSE <<>>

\* the network is up and the source answers the request as it was sent
Answered ==
    \E i \in 1..Len(loads) :
        \/ NetworkChecked(i, TRUE)
        \/ PostsReturned(i, [kind |-> "list", list |-> SourceAnswer(loads[i].query)])

NextQuery ==
    \/ InitializeApp
    \/ Scroll
    \/ \E value \in {"", "s"} : RatingChange(value)
    \/ Answered

SpecQuery == InitLoad /\ [][NextQuery]_vars

\* C33: at every point the posts of the Post Cache are answers to one and the same
\* query: there is a rating under which the source holds every post of posts.
C33_OneQueryInCache ==
    \E r \in {"", "s"} :
        \A k \in 1..Len(posts) : Includes(PostsOfRating(r), posts[k])

\* ------------------------------------------------------------------------
\* The whole gallery
\* ------------------------------------------------------------------------
Init ==
    \E lang \in Languages, blacklist \in {<<>>, <<s_gore>>},
       ui \in [multi_select_enabled : BOOLEAN, tooltip_enabled : BOOLEAN] :
        InitWith(lang, blacklist, ui, DefaultPrompt)

Next ==
    \/ NextLoad
    \/ NextTip
    \/ NextFilter
    \/ NextEdit
    \/ \E t \in {<<<<"2">>, <<"1">>>>, <<<<"1">>, <<>>>>} : FilterApplyTime(t[1], t[2])
    \/ \E r \in 1..Len(panel.renders) : RenderDone(r)
    \/ \E k \in 1..Len(grid) : ImageClick(k)
    \/ ClearAllSelections
    \/ \E ok \in BOOLEAN, tip \in BOOLEAN, multi \in BOOLEAN :
          \/ SettingsSaveClick(currentBlacklist, <<s_a>>, ok, tip, multi)
          \/ SettingsSaveDone(TRUE, ok, tip)

Spec == Init /\ [][Next]_vars

\* ------------------------------------------------------------------------
\* The settings dialog: every value changed, every save able to fail
\* ------------------------------------------------------------------------
NextSettings ==
    \/ InitializeApp
    \/ Scroll
    \/ LoadedList({ <<PostA, PostGore>> })
    \/ \E newBlacklist \in {<<>>, <<s_gore>>}, newFilterTags \in {<<>>, <<s_a>>},
          newFilterEnabled \in BOOLEAN, newTooltip \in BOOLEAN, newMulti \in BOOLEAN :
          SettingsSaveClick(newBlacklist, newFilterTags, newFilterEnabled, newTooltip, newMulti)
    \/ \E blacklistSuccess \in BOOLEAN, filterSuccess \in BOOLEAN,
          uiSettingsSuccess \in BOOLEAN :
          SettingsSaveDone(blacklistSuccess, filterSuccess, uiSettingsSuccess)

SpecSettings == InitLoad /\ [][NextSettings]_vars

\* C39: when the three saves came back and one of them failed, the blacklist, the
\* prompt filter list and flag and the UI settings (multi-select flag included) keep
\* their values, the grid is not rendered again and no page load is started.
C39_SaveAllOrNothing ==
    [][\A blacklistSuccess, filterSuccess, uiSettingsSuccess \in BOOLEAN :
          (/\ ~(blacklistSuccess /\ filterSuccess /\ uiSettingsSuccess)
           /\ SettingsSaveDone(blacklistSuccess, filterSuccess, uiSettingsSuccess))
          => UNCHANGED <<currentBlacklist, promptSettings, uiSettings, posts, currentPage,
                         isLoading, loads, grid, gridStatus>>]_vars

\* the save of a new blacklist, a new prompt filter and other flags came back with
\* a failure: the dialog's values were dropped and the settings are the old ones
C39_Witness ==
    /\ settingsSave = [pending |-> FALSE, toast |-> "saveFailed"]
    /\ started
    /\ currentBlacklist = <<>>
    /\ promptSettings = DefaultPrompt
    /\ uiSettings = DefaultUi
    /\ posts = <<PostA, PostGore>>
    /\ Len(grid) = 2
    /\ ~isLoading

====
